---- MODULE Spec2Model ----
(***************************************************************************)
(* A model of the mbuff binary buffers: the fixed-capacity Buffer, the     *)
(* growable Builder, the count-tracking MBuff and the growable MBuff.      *)
(*                                                                         *)
(* A buffer is the record                                                  *)
(*   data   : the backing array, one byte per cell, Len(data) = cap(data)  *)
(*   len    : len(b.data) (m.count for the count-tracking MBuff)           *)
(*   pos    : the cursor                                                   *)
(*   order  : "BE" or "LE" (binary.BigEndian / binary.LittleEndian)        *)
(*   hlswap : the high-low swap flag                                       *)
(* An unsigned value of width w bytes is the tuple of its w bytes, most    *)
(* significant first.  Every operation is an operator from a buffer (and   *)
(* its arguments) to the record [b, ret, panic]: the buffer after the      *)
(* call, the value returned, and whether the call panicked.                *)
(***************************************************************************)
EXTENDS Integers, Sequences, FiniteSets, TLC

VARIABLES
    kind,   \* which type the buffer under test is
    b,      \* the buffer
    hist    \* the scenario: its growth limit and what it remembers of the calls

vars == <<kind, b, hist>>

\* ------------------------------------------------------------------ bounds

\* Largest capacity a buffer is constructed with.
MaxCap == 4

\* Most elements of an array argument, most bytes of a Write/Read/Peek slice.
MaxArr == 2

\* A growable buffer is not written or reserved beyond this many bytes.
MaxReq == 4

\* The same limit, and the largest capacity, where only Put calls write: room
\* for one 64-bit value.
MaxPutReq == 8

\* Most Put calls of one concatenation scenario.
MaxPuts == 3

\* Capacity of the fixed buffer of the codec scenario: room for MaxArr 64-bit
\* values behind a one-byte prefix.
CodecCap == 8 * MaxArr + 1

\* Largest capacity of the parent buffer of the view scenario.
ViewCap == MaxCap - 1

\* ------------------------------------------------------------- bytes, words

Min(x, y) == IF x < y THEN x ELSE y

Max(x, y) == IF x > y THEN x ELSE y

RECURSIVE BitAnd(_, _)
BitAnd(x, y) ==
    IF x = 0 \/ y = 0 THEN 0
    ELSE (x % 2) * (y % 2) + 2 * BitAnd(x \div 2, y \div 2)

RECURSIVE BitOr(_, _)
BitOr(x, y) ==
    IF x = 0 THEN y
    ELSE IF y = 0 THEN x
    ELSE Max(x % 2, y % 2) + 2 * BitOr(x \div 2, y \div 2)

\* v & m on two words of the same width.
AndW(v, m) == [i \in 1..Len(v) |-> BitAnd(v[i], m[i])]

\* v | w on two words of the same width.
OrW(v, w) == [i \in 1..Len(v) |-> BitOr(v[i], w[i])]

\* v >> 8 within the width of v.
Shr8(v) == [i \in 1..Len(v) |-> IF i = 1 THEN 0 ELSE v[i - 1]]

\* v << 8 within the width of v (the top byte is shifted out).
Shl8(v) == [i \in 1..Len(v) |-> IF i = Len(v) THEN 0 ELSE v[i + 1]]

Reverse(s) == [i \in 1..Len(s) |-> s[Len(s) + 1 - i]]

RECURSIVE Flatten(_)
Flatten(ss) == IF ss = <<>> THEN <<>> ELSE Head(ss) \o Flatten(Tail(ss))

Zeros(n) == [i \in 1..n |-> 0]

\* s[lo:hi] of a Go slice, 0-based, hi exclusive.
Slice(s, lo, hi) == SubSeq(s, lo + 1, hi)

\* copy(data[p:p+Len(bytes)], bytes)
WriteAt(data, p, bytes) ==
    [i \in 1..Len(data) |->
        IF i > p /\ i <= p + Len(bytes) THEN bytes[i - p] ELSE data[i]]

\* The 0xFF00FF00... and 0x00FF00FF... masks of HLSwap32 and HLSwap64.
MaskHi(w) == [i \in 1..w |-> IF i % 2 = 1 THEN 255 ELSE 0]

MaskLo(w) == [i \in 1..w |-> IF i % 2 = 1 THEN 0 ELSE 255]

\* order.PutUint16/32/64(dst, v): the bytes stored for v.
PutUint(order, v) == IF order = "LE" THEN Reverse(v) ELSE v

\* order.Uint16/32/64(src): the value the bytes decode to.
Uint(order, bytes) == IF order = "LE" THEN Reverse(bytes) ELSE bytes

\* A swap of the two 16-bit halves instead of the bytes inside each half.
HLSwap32Halves(buf, v) ==
    IF ~buf.hlswap THEN v ELSE <<v[3], v[4], v[1], v[2]>>

HLSwap32(buf, v) ==
    IF ~buf.hlswap THEN v
    ELSE LET part1 == Shr8(AndW(v, MaskHi(4)))
             part2 == Shl8(AndW(v, MaskLo(4)))
         IN  OrW(part1, part2)

HLSwap64(buf, v) ==
    IF ~buf.hlswap THEN v
    ELSE LET part1 == Shr8(AndW(v, MaskHi(8)))
             part2 == Shl8(AndW(v, MaskLo(8)))
         IN  OrW(part1, part2)

\* ----------------------------------------------------------- call results

Cap(buf) == Len(buf.data)

Ok(buf, r) == [b |-> buf, ret |-> r, panic |-> FALSE]

Panic(buf) == [b |-> buf, ret |-> "panic", panic |-> TRUE]

MkBuf(data, len) ==
    [data |-> data, len |-> len, pos |-> 0, order |-> "BE", hlswap |-> FALSE]

\* ------------------------------------------- Buffer: construction, cursor

NewBuffer(capacity) == MkBuf(Zeros(capacity), 0)

NewBufferFrom(buffer, length) == MkBuf(buffer, length)

Buffer_Readable(buf) == buf.len - buf.pos

Buffer_Writable(buf) == Cap(buf) - buf.pos

Buffer_Bytes(buf) == Slice(buf.data, 0, buf.len)

\* b.data[b.pos:] ends at the length of the slice, and panics when the
\* position is beyond it.
Buffer_WritableBytes(buf) ==
    IF buf.pos > buf.len THEN Panic(buf)
    ELSE Ok(buf, Slice(buf.data, buf.pos, buf.len))

Buffer_Rewind(buf) == Ok([buf EXCEPT !.pos = 0], "nil")

\* A Clear that gives the backing array up instead of reslicing it to [:0].
Buffer_ClearRelease(buf) ==
    Ok([buf EXCEPT !.pos = 0, !.len = 0, !.data = <<>>], "nil")

Buffer_Clear(buf) == Ok([buf EXCEPT !.pos = 0, !.len = 0], "nil")

\* A SetEndian that also turns the bytes already stored to the new order.
Buffer_SetEndianRetroactive(buf, e) ==
    Ok([buf EXCEPT !.order = e,
                   !.data = IF e = buf.order THEN @
                            ELSE [i \in 1..Len(@) |->
                                     IF i <= buf.len THEN @[buf.len + 1 - i]
                                     ELSE @[i]]],
       "nil")

Buffer_SetEndian(buf, e) == Ok([buf EXCEPT !.order = e], "nil")

Buffer_SetHLSwap(buf, enable) == Ok([buf EXCEPT !.hlswap = enable], "nil")

Buffer_Seek(buf, offset) ==
    IF offset < 0 \/ offset > buf.len THEN Ok(buf, "error")
    ELSE Ok([buf EXCEPT !.pos = offset], "nil")

\* A Reseek that counts the offset from the start, as Seek does.
Buffer_ReseekFromStart(buf, offset) ==
    IF offset < 0 \/ offset > buf.len THEN Ok(buf, "error")
    ELSE Ok([buf EXCEPT !.pos = offset], "nil")

Buffer_Reseek(buf, offset) ==
    IF offset < 0 \/ offset > buf.len THEN Ok(buf, "error")
    ELSE Ok([buf EXCEPT !.pos = buf.len - offset], "nil")

Buffer_Skip(buf, length) ==
    IF length < 0 THEN Ok(buf, 0)
    ELSE LET readable == Buffer_Readable(buf)
             n == IF length > readable THEN readable ELSE length
         IN  Ok([buf EXCEPT !.pos = buf.pos + n], n)

Buffer_Commit(buf, length) ==
    IF length < 0 THEN Ok(buf, 0)
    ELSE LET writable == Buffer_Writable(buf)
             n == IF length > writable THEN writable ELSE length
             p == buf.pos + n
         IN  Ok([buf EXCEPT !.pos = p,
                            !.len = IF p > buf.len THEN p ELSE buf.len], n)

\* A view is the Buffer that Since returns, kept as its slice header over the
\* parent's backing array: data starts at index at of the array and has
\* capacity cap; len, pos, order and hlswap are the view's own fields.
\* The slice data[s:e:cap(data)] starts at s, has length e - s and capacity
\* cap(data) - s; it is out of range when e > cap(data).

\* A Since whose slice starts at the front of the array whatever s is.
Buffer_SinceFromZero(buf, s, e) ==
    LET s1 == IF s < 0 THEN buf.pos ELSE s
        e1 == IF e < 0 THEN buf.len ELSE e
    IN  IF s1 > e1 \/ e1 > Cap(buf) THEN Panic(buf)
        ELSE Ok(buf, [at |-> 0, cap |-> Cap(buf), len |-> e1 - s1,
                      pos |-> 0, order |-> buf.order, hlswap |-> buf.hlswap])

\* A Since that takes a negative bound for 0.
Buffer_SinceNoDefaults(buf, s, e) ==
    LET s1 == IF s < 0 THEN 0 ELSE s
        e1 == IF e < 0 THEN 0 ELSE e
    IN  IF s1 > e1 \/ e1 > Cap(buf) THEN Panic(buf)
        ELSE Ok(buf, [at |-> s1, cap |-> Cap(buf) - s1, len |-> e1 - s1,
                      pos |-> 0, order |-> buf.order, hlswap |-> buf.hlswap])

\* A Since whose view starts at the position whatever the lower bound is.
Buffer_SinceAtPos(buf, s, e) ==
    LET s1 == IF s < 0 THEN buf.pos ELSE s
        e1 == IF e < 0 THEN buf.len ELSE e
    IN  IF s1 > e1 \/ e1 > Cap(buf) THEN Panic(buf)
        ELSE Ok(buf, [at |-> buf.pos, cap |-> Cap(buf) - s1, len |-> e1 - s1,
                      pos |-> 0, order |-> buf.order, hlswap |-> buf.hlswap])

Buffer_Since(buf, s, e) ==
    LET s1 == IF s < 0 THEN buf.pos ELSE s
        e1 == IF e < 0 THEN buf.len ELSE e
    IN  IF s1 > e1 THEN Panic(buf)             \* panic("invalid range")
        ELSE IF e1 > Cap(buf) THEN Panic(buf)  \* b.data[s:e:cap(b.data)]
        ELSE Ok(buf, [at |-> s1, cap |-> Cap(buf) - s1, len |-> e1 - s1,
                      pos |-> 0, order |-> buf.order, hlswap |-> buf.hlswap])

Buffer_ReadableSince(buf) == Buffer_Since(buf, buf.pos, buf.len)

Buffer_WritableSince(buf) == Buffer_Since(buf, buf.pos, buf.len)

\* The Buffer a view is, over the backing array data.
ViewBuffer(data, v) ==
    [data |-> Slice(data, v.at, v.at + v.cap), order |-> v.order,
     hlswap |-> v.hlswap, len |-> v.len, pos |-> v.pos]

\* The backing array after a call through the view v left the view as vb.
ViewStore(data, v, vb) == WriteAt(data, v.at, vb.data)

\* The header of the view v after a call left the view as vb.
ViewHeader(v, vb) ==
    [v EXCEPT !.len = vb.len, !.pos = vb.pos, !.order = vb.order,
              !.hlswap = vb.hlswap]

Buffer_Compact(buf) ==
    IF buf.pos = 0 THEN Ok(buf, "nil")
    ELSE IF buf.pos = buf.len THEN Buffer_Clear(buf)
    ELSE LET readableLen == Buffer_Readable(buf)
         IN  IF readableLen < 0 THEN Panic(buf)   \* b.data[:readableLen]
             ELSE Ok([buf EXCEPT
                         !.data = WriteAt(buf.data, 0,
                                          Slice(buf.data, buf.pos, buf.len)),
                         !.len = readableLen,
                         !.pos = 0], "nil")

\* ------------------------------------------------ Buffer: stream adapter

\* Peek(p) with len(p) = k; ret.p holds the bytes copied into p.
Buffer_Peek(buf, k) ==
    IF k = 0 THEN Ok(buf, [n |-> 0, p |-> <<>>])
    ELSE LET readable == Buffer_Readable(buf)
             n == IF k > readable THEN readable ELSE k
         IN  IF n = 0 THEN Ok(buf, [n |-> 0, p |-> <<>>])
             ELSE IF n < 0 THEN Panic(buf)   \* b.data[b.pos:b.pos+n], high < low
             ELSE Ok(buf, [n |-> n, p |-> Slice(buf.data, buf.pos, buf.pos + n)])

Buffer_Fill(buf, bt, length) ==
    IF length <= 0 THEN Ok(buf, 0)
    ELSE LET writable == Buffer_Writable(buf)
         IN  IF writable = 0 THEN Ok(buf, 0)
             ELSE LET n == IF length > writable THEN writable ELSE length
                      end == buf.pos + n
                  IN  Ok([buf EXCEPT
                             !.len = IF end > buf.len THEN end ELSE buf.len,
                             !.data = WriteAt(buf.data, buf.pos,
                                              [i \in 1..n |-> bt]),
                             !.pos = end], n)

\* Read(p) with len(p) = k; ret.p holds the bytes copied into p.
Buffer_Read(buf, k) ==
    IF k = 0 THEN Ok(buf, [n |-> 0, err |-> "nil", p |-> <<>>])
    ELSE LET readable == Buffer_Readable(buf)
         IN  IF readable = 0 THEN Ok(buf, [n |-> 0, err |-> "EOF", p |-> <<>>])
             ELSE LET n == IF k > readable THEN readable ELSE k
                  IN  IF buf.pos > buf.len THEN Panic(buf)   \* b.data[b.pos:]
                      ELSE Ok([buf EXCEPT !.pos = buf.pos + n],
                              [n |-> n, err |-> "nil",
                               p |-> Slice(buf.data, buf.pos,
                                           buf.pos + Min(k, buf.len - buf.pos))])

Buffer_Write(buf, p) ==
    IF Len(p) = 0 THEN Ok(buf, [n |-> 0, err |-> "nil"])
    ELSE LET writable == Buffer_Writable(buf)
             short == Len(p) > writable
             n == IF short THEN writable ELSE Len(p)
         IN  Ok([buf EXCEPT
                    !.data = WriteAt(buf.data, buf.pos, Slice(p, 0, n)),
                    !.pos = buf.pos + n],
                [n |-> n, err |-> IF short THEN "ErrShortWrite" ELSE "nil"])

\* ----------------------------------------------------------- Buffer: Take

\* The k values of w bytes each stored from offset at, as raw byte groups.
Groups(data, at, w, k) ==
    [i \in 1..k |-> Slice(data, at + w * (i - 1), at + w * i)]

\* A readable check against the capacity instead of the count.
Buffer_mustHaveReadableCap(buf, n) == ~(buf.pos + n > Cap(buf))

\* TRUE when the check passes, FALSE when it panics.
Buffer_mustHaveReadable(buf, n) == ~(buf.pos + n > buf.len)

\* The shape shared by TakeU8..TakeArr64: check n bytes, decode, advance.
Buffer_TakeBytes(buf, n, decoded) ==
    IF ~Buffer_mustHaveReadable(buf, n) THEN Panic(buf)
    ELSE Ok([buf EXCEPT !.pos = buf.pos + n], decoded)

Buffer_TakeU8(buf) ==
    Buffer_TakeBytes(buf, 1, Slice(buf.data, buf.pos, buf.pos + 1))

Buffer_TakeU16(buf) ==
    Buffer_TakeBytes(buf, 2,
        Uint(buf.order, Slice(buf.data, buf.pos, buf.pos + 2)))

\* A TakeU32 that decodes without undoing the swap.
Buffer_TakeU32NoSwap(buf) ==
    Buffer_TakeBytes(buf, 4,
        Uint(buf.order, Slice(buf.data, buf.pos, buf.pos + 4)))

Buffer_TakeU32(buf) ==
    Buffer_TakeBytes(buf, 4,
        HLSwap32(buf, Uint(buf.order, Slice(buf.data, buf.pos, buf.pos + 4))))

Buffer_TakeU64(buf) ==
    Buffer_TakeBytes(buf, 8,
        HLSwap64(buf, Uint(buf.order, Slice(buf.data, buf.pos, buf.pos + 8))))

\* TakeArr8(v) with len(v) = k: copy(v, b.data[b.pos:]) copies k bytes.
Buffer_TakeArr8(buf, k) ==
    Buffer_TakeBytes(buf, k, Slice(buf.data, buf.pos, buf.pos + k))

Buffer_TakeArr16(buf, k) ==
    Buffer_TakeBytes(buf, 2 * k,
        [i \in 1..k |-> Uint(buf.order, Groups(buf.data, buf.pos, 2, k)[i])])

Buffer_TakeArr32(buf, k) ==
    Buffer_TakeBytes(buf, 4 * k,
        [i \in 1..k |->
            HLSwap32(buf, Uint(buf.order, Groups(buf.data, buf.pos, 4, k)[i]))])

Buffer_TakeArr64(buf, k) ==
    Buffer_TakeBytes(buf, 8 * k,
        [i \in 1..k |->
            HLSwap64(buf, Uint(buf.order, Groups(buf.data, buf.pos, 8, k)[i]))])

\* ------------------------------------------------------------ Buffer: Put

\* A Put whose overflow check is off by one.
Buffer_PutBytesOffByOne(buf, n, enc) ==
    LET required == buf.pos + n
    IN  IF required > buf.len /\ required >= Cap(buf) THEN Panic(buf)
        ELSE Ok([buf EXCEPT
                    !.len = IF required > buf.len THEN required ELSE buf.len,
                    !.data = WriteAt(buf.data, buf.pos, enc),
                    !.pos = buf.pos + n], "nil")

\* The shape shared by PutU8..PutArr64: n bytes are required at pos, enc are
\* the bytes stored there.
Buffer_PutBytes(buf, n, enc) ==
    LET required == buf.pos + n
    IN  IF required > buf.len /\ required > Cap(buf) THEN Panic(buf)
        ELSE Ok([buf EXCEPT
                    !.len = IF required > buf.len THEN required ELSE buf.len,
                    !.data = WriteAt(buf.data, buf.pos, enc),
                    !.pos = buf.pos + n], "nil")

Buffer_PutU8(buf, v) == Buffer_PutBytes(buf, 1, v)

\* A PutU16 that swaps the two bytes of the value when the swap is enabled.
Buffer_PutU16Swapping(buf, v) ==
    Buffer_PutBytes(buf, 2, PutUint(buf.order, IF buf.hlswap THEN Reverse(v) ELSE v))

Buffer_PutU16(buf, v) == Buffer_PutBytes(buf, 2, PutUint(buf.order, v))

Buffer_PutU32(buf, v) ==
    Buffer_PutBytes(buf, 4, PutUint(buf.order, HLSwap32(buf, v)))

Buffer_PutU64(buf, v) ==
    Buffer_PutBytes(buf, 8, PutUint(buf.order, HLSwap64(buf, v)))

Buffer_PutArr8(buf, v) == Buffer_PutBytes(buf, Len(v), v)

Buffer_PutArr16(buf, v) ==
    Buffer_PutBytes(buf, 2 * Len(v),
        Flatten([i \in 1..Len(v) |-> PutUint(buf.order, v[i])]))

Buffer_PutArr32(buf, v) ==
    Buffer_PutBytes(buf, 4 * Len(v),
        Flatten([i \in 1..Len(v) |-> PutUint(buf.order, HLSwap32(buf, v[i]))]))

Buffer_PutArr64(buf, v) ==
    Buffer_PutBytes(buf, 8 * Len(v),
        Flatten([i \in 1..Len(v) |-> PutUint(buf.order, HLSwap64(buf, v[i]))]))

\* ----------------------------------------------------------- Buffer: Peek

\* A peekable check against the capacity instead of the count.
Buffer_mustHavePeekableCap(buf, offset, n) ==
    LET absPos == buf.pos + offset
    IN  ~(absPos < 0 \/ absPos + n > Cap(buf))

\* TRUE when the check passes (absPos is then buf.pos + offset).
Buffer_mustHavePeekable(buf, offset, n) ==
    LET absPos == buf.pos + offset
    IN  ~(absPos < 0 \/ absPos + n > buf.len)

Buffer_PeekU8(buf, offset) ==
    IF ~Buffer_mustHavePeekable(buf, offset, 1) THEN Panic(buf)
    ELSE Ok(buf, Slice(buf.data, buf.pos + offset, buf.pos + offset + 1))

\* A PeekU16 that advances the position as TakeU16 does.
Buffer_PeekU16Advancing(buf, offset) ==
    IF ~Buffer_mustHavePeekable(buf, offset, 2) THEN Panic(buf)
    ELSE Ok([buf EXCEPT !.pos = buf.pos + 2],
            Uint(buf.order,
                 Slice(buf.data, buf.pos + offset, buf.pos + offset + 2)))

Buffer_PeekU16(buf, offset) ==
    IF ~Buffer_mustHavePeekable(buf, offset, 2) THEN Panic(buf)
    ELSE Ok(buf, Uint(buf.order,
                      Slice(buf.data, buf.pos + offset, buf.pos + offset + 2)))

Buffer_PeekU32(buf, offset) ==
    IF ~Buffer_mustHavePeekable(buf, offset, 4) THEN Panic(buf)
    ELSE Ok(buf, HLSwap32(buf, Uint(buf.order,
                      Slice(buf.data, buf.pos + offset, buf.pos + offset + 4))))

Buffer_PeekU64(buf, offset) ==
    IF ~Buffer_mustHavePeekable(buf, offset, 8) THEN Panic(buf)
    ELSE Ok(buf, HLSwap64(buf, Uint(buf.order,
                      Slice(buf.data, buf.pos + offset, buf.pos + offset + 8))))

Buffer_PeekArr8(buf, offset, k) ==
    IF ~Buffer_mustHavePeekable(buf, offset, k) THEN Panic(buf)
    ELSE Ok(buf, Slice(buf.data, buf.pos + offset, buf.pos + offset + k))

Buffer_PeekArr16(buf, offset, k) ==
    IF ~Buffer_mustHavePeekable(buf, offset, 2 * k) THEN Panic(buf)
    ELSE Ok(buf, [i \in 1..k |->
            Uint(buf.order, Groups(buf.data, buf.pos + offset, 2, k)[i])])

Buffer_PeekArr32(buf, offset, k) ==
    IF ~Buffer_mustHavePeekable(buf, offset, 4 * k) THEN Panic(buf)
    ELSE Ok(buf, [i \in 1..k |->
            HLSwap32(buf, Uint(buf.order,
                               Groups(buf.data, buf.pos + offset, 4, k)[i]))])

Buffer_PeekArr64(buf, offset, k) ==
    IF ~Buffer_mustHavePeekable(buf, offset, 8 * k) THEN Panic(buf)
    ELSE Ok(buf, [i \in 1..k |->
            HLSwap64(buf, Uint(buf.order,
                               Groups(buf.data, buf.pos + offset, 8, k)[i]))])

\* ------------------------------------------------------ Buffer: Overwrite

\* TRUE when the check passes.
Buffer_mustHaveOverwritable(buf, offset, n) ==
    ~(offset < 0 \/ offset + n > buf.len)

\* An Overwrite that leaves the position after the bytes it wrote.
Buffer_OverwriteBytesAdvancing(buf, offset, n, enc) ==
    IF ~Buffer_mustHaveOverwritable(buf, offset, n) THEN Panic(buf)
    ELSE Ok([buf EXCEPT !.data = WriteAt(buf.data, offset, enc),
                        !.pos = offset + n], "nil")

\* An Overwrite that checks element by element: what fits is written before
\* the panic.
Buffer_OverwriteBytesPartial(buf, offset, n, enc) ==
    IF offset < 0 THEN Panic(buf)
    ELSE IF offset + n > buf.len
    THEN Panic([buf EXCEPT !.data = WriteAt(buf.data, offset, enc)])
    ELSE Ok([buf EXCEPT !.data = WriteAt(buf.data, offset, enc)], "nil")

\* The shape shared by OverwriteU8..OverwriteArr64.
Buffer_OverwriteBytes(buf, offset, n, enc) ==
    IF ~Buffer_mustHaveOverwritable(buf, offset, n) THEN Panic(buf)
    ELSE Ok([buf EXCEPT !.data = WriteAt(buf.data, offset, enc)], "nil")

Buffer_OverwriteU8(buf, offset, v) == Buffer_OverwriteBytes(buf, offset, 1, v)

Buffer_OverwriteU16(buf, offset, v) ==
    Buffer_OverwriteBytes(buf, offset, 2, PutUint(buf.order, v))

Buffer_OverwriteU32(buf, offset, v) ==
    Buffer_OverwriteBytes(buf, offset, 4, PutUint(buf.order, HLSwap32(buf, v)))

Buffer_OverwriteU64(buf, offset, v) ==
    Buffer_OverwriteBytes(buf, offset, 8, PutUint(buf.order, HLSwap64(buf, v)))

Buffer_OverwriteArr8(buf, offset, v) ==
    Buffer_OverwriteBytes(buf, offset, Len(v), v)

Buffer_OverwriteArr16(buf, offset, v) ==
    Buffer_OverwriteBytes(buf, offset, 2 * Len(v),
        Flatten([i \in 1..Len(v) |-> PutUint(buf.order, v[i])]))

Buffer_OverwriteArr32(buf, offset, v) ==
    Buffer_OverwriteBytes(buf, offset, 4 * Len(v),
        Flatten([i \in 1..Len(v) |-> PutUint(buf.order, HLSwap32(buf, v[i]))]))

Buffer_OverwriteArr64(buf, offset, v) ==
    Buffer_OverwriteBytes(buf, offset, 8 * Len(v),
        Flatten([i \in 1..Len(v) |-> PutUint(buf.order, HLSwap64(buf, v[i]))]))

\* ---------------------------------------------------------------- Builder
\* Builder embeds Buffer: Take*, Peek*, Overwrite*, Seek, Reseek, Skip, Commit,
\* Compact, Read, Peek, Rewind, Clear and the setters are Buffer's.

\* Minimum initial capacity of a growable buffer grown from capacity 0.
MinInitialCap == 64

NewBuilder(capacity) == MkBuf(Zeros(capacity), 0)

NewBuilderFrom(buffer, length) == MkBuf(buffer, length)

\* A buffer whose backing array is told apart from the arrays allocated
\* later: base 0 is the array the buffer was constructed on, and every make()
\* gives the next. Only the scenarios that observe the identity of the
\* storage construct their buffers so.
Tracked(buf) ==
    [data |-> buf.data, len |-> buf.len, pos |-> buf.pos, order |-> buf.order,
     hlswap |-> buf.hlswap, base |-> 0]

\* The backing array after make(): the next one where arrays are told apart.
Fresh(buf) ==
    IF "base" \in DOMAIN buf THEN [buf EXCEPT !.base = @ + 1] ELSE buf

\* make([]byte, len(b.data), newCap); copy(newData, b.data)
Realloc(buf, newCap) ==
    [Fresh(buf) EXCEPT !.data = [i \in 1..newCap |->
                                    IF i <= buf.len THEN buf.data[i] ELSE 0]]

\* An ensure that doubles the capacity and ignores what is required.
Builder_ensureDoubling(buf, required) ==
    IF required <= Cap(buf) THEN buf
    ELSE Realloc(buf, Cap(buf) * 2)

\* An ensure that allocates without copying the existing data.
Builder_ensureNoCopy(buf, required) ==
    IF required <= Cap(buf) THEN buf
    ELSE [buf EXCEPT !.data = Zeros(Max(2 * Cap(buf), required))]

\* An ensure that moves the content to a new array also when the capacity
\* is enough.
Builder_ensureCopying(buf, required) ==
    IF required <= Cap(buf) THEN Realloc(buf, Cap(buf))
    ELSE Realloc(buf, IF Cap(buf) * 2 < required THEN required ELSE Cap(buf) * 2)

Builder_ensure(buf, required) ==
    IF required <= Cap(buf) THEN buf
    ELSE LET newCap ==
                 IF Cap(buf) = 0
                 THEN (IF required < MinInitialCap THEN MinInitialCap
                       ELSE required)
                 ELSE (IF Cap(buf) * 2 < required THEN required
                       ELSE Cap(buf) * 2)
         IN  Realloc(buf, newCap)

\* A Grow that reserves beyond the position instead of beyond the length.
Builder_GrowFromPos(buf, n) ==
    IF n < 0 THEN Panic(buf)
    ELSE Ok(Builder_ensure(buf, buf.pos + n), "nil")

Builder_Grow(buf, n) ==
    IF n < 0 THEN Panic(buf)
    ELSE Ok(Builder_ensure(buf, buf.len + n), "nil")

\* A Reserve that moves the content to a new array on every call.
Builder_ReserveCopying(buf, capacity) ==
    IF capacity < 0 THEN Panic(buf)
    ELSE Ok(Realloc(buf, IF capacity > Cap(buf) THEN capacity ELSE Cap(buf)), "nil")

Builder_Reserve(buf, capacity) ==
    IF capacity < 0 THEN Panic(buf)
    ELSE Ok(Builder_ensure(buf, capacity), "nil")

Builder_Fill(buf, bt, length) ==
    IF length <= 0 THEN Ok(buf, 0)
    ELSE LET required == buf.pos + length
             g == Builder_ensure(buf, required)
         IN  IF required > g.len /\ required > Cap(g) THEN Panic(g)
             ELSE
             Ok([g EXCEPT
                    !.len = IF required > g.len THEN required ELSE g.len,
                    !.data = WriteAt(g.data, g.pos, [i \in 1..length |-> bt]),
                    !.pos = g.pos + length], length)

\* A Write that stores only what the current capacity holds, as the fixed
\* Buffer's does.
Builder_WriteClamped(buf, p) ==
    IF Len(p) = 0 THEN Ok(buf, [n |-> 0, err |-> "nil"])
    ELSE LET writable == Buffer_Writable(buf)
             short == Len(p) > writable
             n == IF short THEN writable ELSE Len(p)
             end == buf.pos + n
         IN  Ok([buf EXCEPT
                    !.len = IF end > buf.len THEN end ELSE buf.len,
                    !.data = WriteAt(buf.data, buf.pos, Slice(p, 0, n)),
                    !.pos = end],
                [n |-> n, err |-> IF short THEN "ErrShortWrite" ELSE "nil"])

Builder_Write(buf, p) ==
    IF Len(p) = 0 THEN Ok(buf, [n |-> 0, err |-> "nil"])
    ELSE LET required == buf.pos + Len(p)
             g == Builder_ensure(buf, required)
         IN  IF required > g.len /\ required > Cap(g) THEN Panic(g)
             ELSE
             Ok([g EXCEPT
                    !.len = IF required > g.len THEN required ELSE g.len,
                    !.data = WriteAt(g.data, g.pos, p),
                    !.pos = g.pos + Len(p)],
                [n |-> Len(p), err |-> "nil"])

\* A Put that advances the position without extending len(b.data).
Builder_PutBytesNoExtend(buf, n, enc) ==
    LET g == Builder_ensure(buf, buf.pos + n)
    IN  Ok([g EXCEPT !.data = WriteAt(g.data, g.pos, enc),
                     !.pos = g.pos + n], "nil")

\* The shape shared by Builder's PutU8..PutArr64.
Builder_PutBytes(buf, n, enc) ==
    LET required == buf.pos + n
        g == Builder_ensure(buf, required)
    IN  IF required > g.len /\ required > Cap(g) THEN Panic(g)
        ELSE
        Ok([g EXCEPT
               !.len = IF required > g.len THEN required ELSE g.len,
               !.data = WriteAt(g.data, g.pos, enc),
               !.pos = g.pos + n], "nil")

Builder_PutU8(buf, v) == Builder_PutBytes(buf, 1, v)

Builder_PutU16(buf, v) == Builder_PutBytes(buf, 2, PutUint(buf.order, v))

Builder_PutU32(buf, v) ==
    Builder_PutBytes(buf, 4, PutUint(buf.order, HLSwap32(buf, v)))

Builder_PutU64(buf, v) ==
    Builder_PutBytes(buf, 8, PutUint(buf.order, HLSwap64(buf, v)))

Builder_PutArr8(buf, v) == Builder_PutBytes(buf, Len(v), v)

Builder_PutArr16(buf, v) ==
    Builder_PutBytes(buf, 2 * Len(v),
        Flatten([i \in 1..Len(v) |-> PutUint(buf.order, v[i])]))

Builder_PutArr32(buf, v) ==
    Builder_PutBytes(buf, 4 * Len(v),
        Flatten([i \in 1..Len(v) |-> PutUint(buf.order, HLSwap32(buf, v[i]))]))

Builder_PutArr64(buf, v) ==
    Builder_PutBytes(buf, 8 * Len(v),
        Flatten([i \in 1..Len(v) |-> PutUint(buf.order, HLSwap64(buf, v[i]))]))

\* ----------------------------------------------- MBuff, count-tracking
\* data is the whole backing array (buffer[0:cap(buffer)]); the field len of
\* the record is m.count.

NewMBuff(buffer) == MkBuf(buffer, 0)

\* MBuff's HLSwap32 and HLSwap64: the transform of the specification, 4.3.
MBuff_HLSwap32(m, v) == HLSwap32(m, v)

MBuff_HLSwap64(m, v) == HLSwap64(m, v)

MBuff_Rewind(m) == Ok([m EXCEPT !.pos = 0], "nil")

MBuff_Clear(m) == Ok([m EXCEPT !.pos = 0, !.len = 0], "nil")

MBuff_SetEndian(m, e) == Ok([m EXCEPT !.order = e], "nil")

MBuff_SetHLSwap(m, enable) == Ok([m EXCEPT !.hlswap = enable], "nil")

MBuff_Seek(m, offset) ==
    IF offset < 0 \/ offset > m.len THEN Ok(m, "error")
    ELSE Ok([m EXCEPT !.pos = offset], "nil")

MBuff_Fill(m, bt, length) ==
    IF length <= 0 THEN Ok(m, 0)
    ELSE LET writable == Cap(m) - m.pos
             n == IF length > writable THEN writable ELSE length
             end == m.pos + n
         IN  IF n = 0 THEN Ok(m, 0)
             ELSE Ok([m EXCEPT
                         !.data = WriteAt(m.data, m.pos, [i \in 1..n |-> bt]),
                         !.pos = end,
                         !.len = IF end > m.len THEN end ELSE m.len], n)

\* A Write that reports no error when it stored only a prefix.
MBuff_WriteNoShort(m, p) ==
    IF Len(p) = 0 THEN Ok(m, [n |-> 0, err |-> "nil"])
    ELSE LET writable == Cap(m) - m.pos
             n == IF Len(p) > writable THEN writable ELSE Len(p)
             end == m.pos + n
         IN  IF n > 0
             THEN Ok([m EXCEPT
                         !.data = WriteAt(m.data, m.pos, Slice(p, 0, n)),
                         !.pos = end,
                         !.len = IF end > m.len THEN end ELSE m.len],
                     [n |-> n, err |-> "nil"])
             ELSE Ok(m, [n |-> n, err |-> "nil"])

MBuff_Write(m, p) ==
    IF Len(p) = 0 THEN Ok(m, [n |-> 0, err |-> "nil"])
    ELSE LET writable == Cap(m) - m.pos
             n == IF Len(p) > writable THEN writable ELSE Len(p)
             end == m.pos + n
             err == IF n < Len(p) THEN "ErrShortWrite" ELSE "nil"
         IN  IF n > 0
             THEN Ok([m EXCEPT
                         !.data = WriteAt(m.data, m.pos, Slice(p, 0, n)),
                         !.pos = end,
                         !.len = IF end > m.len THEN end ELSE m.len],
                     [n |-> n, err |-> err])
             ELSE Ok(m, [n |-> n, err |-> err])

\* TRUE when the check passes.
MBuff_mustHaveWritable(m, n) == ~(m.pos + n > Cap(m))

\* A Put that advances the position and leaves m.count behind.
MBuff_PutBytesNoCount(m, n, enc) ==
    IF ~MBuff_mustHaveWritable(m, n) THEN Panic(m)
    ELSE Ok([m EXCEPT !.data = WriteAt(m.data, m.pos, enc),
                      !.pos = m.pos + n], "nil")

\* The shape shared by MBuff's PutU8..PutArr64.
MBuff_PutBytes(m, n, enc) ==
    IF ~MBuff_mustHaveWritable(m, n) THEN Panic(m)
    ELSE LET end == m.pos + n
         IN  Ok([m EXCEPT !.data = WriteAt(m.data, m.pos, enc),
                          !.pos = end,
                          !.len = IF end > m.len THEN end ELSE m.len], "nil")

MBuff_PutU8(m, v) == MBuff_PutBytes(m, 1, v)

MBuff_PutU16(m, v) == MBuff_PutBytes(m, 2, PutUint(m.order, v))

MBuff_PutU32(m, v) ==
    MBuff_PutBytes(m, 4, PutUint(m.order, MBuff_HLSwap32(m, v)))

MBuff_PutU64(m, v) ==
    MBuff_PutBytes(m, 8, PutUint(m.order, MBuff_HLSwap64(m, v)))

MBuff_PutArr8(m, v) == MBuff_PutBytes(m, Len(v), v)

MBuff_PutArr16(m, v) ==
    MBuff_PutBytes(m, 2 * Len(v),
        Flatten([i \in 1..Len(v) |-> PutUint(m.order, v[i])]))

MBuff_PutArr32(m, v) ==
    MBuff_PutBytes(m, 4 * Len(v),
        Flatten([i \in 1..Len(v) |-> PutUint(m.order, MBuff_HLSwap32(m, v[i]))]))

MBuff_PutArr64(m, v) ==
    MBuff_PutBytes(m, 8 * Len(v),
        Flatten([i \in 1..Len(v) |-> PutUint(m.order, MBuff_HLSwap64(m, v[i]))]))

\* ------------------------------------------------------- MBuff, growable
\* The MBuff without a count field: len(m.data) is the count, the record's
\* field len; data holds the backing array up to cap(m.data).

New(capacity) == MkBuf(Zeros(capacity), 0)

GMBuff_NewMBuff(buffer, length) == MkBuf(buffer, length)

GMBuff_Rewind(m) == Ok([m EXCEPT !.pos = 0], "nil")

GMBuff_Clear(m) == Ok([m EXCEPT !.pos = 0, !.len = 0], "nil")

GMBuff_SetEndian(m, e) == Ok([m EXCEPT !.order = e], "nil")

GMBuff_SetHLSwap(m, enable) == Ok([m EXCEPT !.hlswap = enable], "nil")

GMBuff_Seek(m, offset) ==
    IF offset < 0 \/ offset > m.len THEN Ok(m, "error")
    ELSE Ok([m EXCEPT !.pos = offset], "nil")

\* An ensure that allocates exactly what is required and never doubles.
GMBuff_ensureExact(m, required) ==
    IF required <= Cap(m) THEN m
    ELSE Realloc(m, required)

GMBuff_ensure(m, required) ==
    IF required <= Cap(m) THEN m
    ELSE LET doubled == Cap(m) * 2
             grown == IF doubled < required THEN required ELSE doubled
             newCap == IF grown = 0
                       THEN (IF required < MinInitialCap THEN MinInitialCap
                             ELSE required)
                       ELSE grown
         IN  Realloc(m, newCap)

GMBuff_Grow(m, n) ==
    IF n < 0 THEN Panic(m)
    ELSE Ok(GMBuff_ensure(m, m.len + n), "nil")

GMBuff_Reserve(m, capacity) ==
    IF capacity < 0 THEN Panic(m)
    ELSE Ok(GMBuff_ensure(m, capacity), "nil")

GMBuff_Fill(m, bt, length) ==
    IF length <= 0 THEN Ok(m, 0)
    ELSE LET required == m.pos + length
             g == GMBuff_ensure(m, required)
         IN  IF required > g.len /\ required > Cap(g) THEN Panic(g)
             ELSE
             Ok([g EXCEPT
                    !.len = IF required > g.len THEN required ELSE g.len,
                    !.data = WriteAt(g.data, g.pos, [i \in 1..length |-> bt]),
                    !.pos = g.pos + length], length)

GMBuff_Write(m, p) ==
    IF Len(p) = 0 THEN Ok(m, [n |-> 0, err |-> "nil"])
    ELSE LET required == m.pos + Len(p)
             g == GMBuff_ensure(m, required)
         IN  IF required > g.len /\ required > Cap(g) THEN Panic(g)
             ELSE
             Ok([g EXCEPT
                    !.len = IF required > g.len THEN required ELSE g.len,
                    !.data = WriteAt(g.data, g.pos, p),
                    !.pos = g.pos + Len(p)],
                [n |-> Len(p), err |-> "nil"])

\* The shape shared by the growable MBuff's PutU8..PutArr64.
GMBuff_PutBytes(m, n, enc) ==
    LET required == m.pos + n
        g == GMBuff_ensure(m, required)
    IN  IF required > g.len /\ required > Cap(g) THEN Panic(g)
        ELSE
        Ok([g EXCEPT
               !.len = IF required > g.len THEN required ELSE g.len,
               !.data = WriteAt(g.data, g.pos, enc),
               !.pos = g.pos + n], "nil")

GMBuff_PutU8(m, v) == GMBuff_PutBytes(m, 1, v)

GMBuff_PutU16(m, v) == GMBuff_PutBytes(m, 2, PutUint(m.order, v))

GMBuff_PutU32(m, v) ==
    GMBuff_PutBytes(m, 4, PutUint(m.order, MBuff_HLSwap32(m, v)))

GMBuff_PutU64(m, v) ==
    GMBuff_PutBytes(m, 8, PutUint(m.order, MBuff_HLSwap64(m, v)))

GMBuff_PutArr8(m, v) == GMBuff_PutBytes(m, Len(v), v)

GMBuff_PutArr16(m, v) ==
    GMBuff_PutBytes(m, 2 * Len(v),
        Flatten([i \in 1..Len(v) |-> PutUint(m.order, v[i])]))

GMBuff_PutArr32(m, v) ==
    GMBuff_PutBytes(m, 4 * Len(v),
        Flatten([i \in 1..Len(v) |-> PutUint(m.order, MBuff_HLSwap32(m, v[i]))]))

GMBuff_PutArr64(m, v) ==
    GMBuff_PutBytes(m, 8 * Len(v),
        Flatten([i \in 1..Len(v) |-> PutUint(m.order, MBuff_HLSwap64(m, v[i]))]))

\* -------------------------------------------- MBuff, growable: Overwrite

\* An overwritable check against the capacity instead of the count.
GMBuff_mustHaveOverwritableCap(m, offset, n) ==
    ~(offset < 0 \/ offset + n > Cap(m))

\* TRUE when the check passes.
GMBuff_mustHaveOverwritable(m, offset, n) ==
    ~(offset < 0 \/ offset + n > m.len)

\* The shape shared by the growable MBuff's OverwriteU8..OverwriteArr64.
GMBuff_OverwriteBytes(m, offset, n, enc) ==
    IF ~GMBuff_mustHaveOverwritable(m, offset, n) THEN Panic(m)
    ELSE Ok([m EXCEPT !.data = WriteAt(m.data, offset, enc)], "nil")

GMBuff_OverwriteU8(m, offset, v) == GMBuff_OverwriteBytes(m, offset, 1, v)

GMBuff_OverwriteU16(m, offset, v) ==
    GMBuff_OverwriteBytes(m, offset, 2, PutUint(m.order, v))

GMBuff_OverwriteU32(m, offset, v) ==
    GMBuff_OverwriteBytes(m, offset, 4, PutUint(m.order, MBuff_HLSwap32(m, v)))

GMBuff_OverwriteU64(m, offset, v) ==
    GMBuff_OverwriteBytes(m, offset, 8, PutUint(m.order, MBuff_HLSwap64(m, v)))

GMBuff_OverwriteArr8(m, offset, v) ==
    GMBuff_OverwriteBytes(m, offset, Len(v), v)

GMBuff_OverwriteArr16(m, offset, v) ==
    GMBuff_OverwriteBytes(m, offset, 2 * Len(v),
        Flatten([i \in 1..Len(v) |-> PutUint(m.order, v[i])]))

GMBuff_OverwriteArr32(m, offset, v) ==
    GMBuff_OverwriteBytes(m, offset, 4 * Len(v),
        Flatten([i \in 1..Len(v) |-> PutUint(m.order, MBuff_HLSwap32(m, v[i]))]))

GMBuff_OverwriteArr64(m, offset, v) ==
    GMBuff_OverwriteBytes(m, offset, 8 * Len(v),
        Flatten([i \in 1..Len(v) |-> PutUint(m.order, MBuff_HLSwap64(m, v[i]))]))

\* ------------------------------------------------------ arguments of calls

Kinds == {"Buffer", "Builder", "MBuff", "GMBuff"}

\* Buffer and Builder (which embeds Buffer) share the read-side operations.
BufferLike == {"Buffer", "Builder"}

Growable == {"Builder", "GMBuff"}

Fixed == {"Buffer", "MBuff"}

Bytes8 == {1}

\* The values of w bytes the calls are made with.
Vals(w) ==
    CASE w = 1 -> {<<1>>}
      [] w = 2 -> {<<0, 1>>}
      [] w = 4 -> {<<0, 0, 0, 1>>}
      [] OTHER -> {<<0, 0, 0, 0, 0, 0, 0, 1>>}

\* The slices of at most MaxArr elements of S.
Arr(S) == UNION {[1..k -> S] : k \in 0..MaxArr}

Offsets == -1..(MaxCap + 1)

\* Offsets of Peek (relative to the position) and of Overwrite (absolute).
RelOffsets == -1..1

Orders == {"BE", "LE"}

\* A growable buffer is written only while the write ends within the limit.
GrowOK(n) == kind \in Growable => b.pos + n <= hist.limit

\* One call that is not a Put: the buffer after it.
Do(r) ==
    /\ b' = r.b
    /\ UNCHANGED <<kind, hist>>

\* The scenario of the unrestricted specification: nothing is remembered.
Free == [limit |-> MaxReq, track |-> FALSE]

Init ==
    /\ kind \in Kinds
    /\ \E c \in 0..MaxCap, l \in 0..MaxCap :
          /\ l <= c
          /\ b \in CASE kind = "Buffer" ->
                        {NewBuffer(c), NewBufferFrom(Zeros(c), l)}
                     [] kind = "Builder" ->
                        {NewBuilder(c), NewBuilderFrom(Zeros(c), l)}
                     [] kind = "MBuff" -> {NewMBuff(Zeros(c))}
                     [] OTHER -> {New(c), GMBuff_NewMBuff(Zeros(c), l)}
    /\ hist = Free

\* ------------------------------------------------------- cursor, settings

Seek ==
    \E offset \in Offsets :
        Do(CASE kind \in BufferLike -> Buffer_Seek(b, offset)
             [] kind = "MBuff" -> MBuff_Seek(b, offset)
             [] OTHER -> GMBuff_Seek(b, offset))

Reseek ==
    /\ kind \in BufferLike
    /\ \E offset \in Offsets : Do(Buffer_Reseek(b, offset))

Rewind ==
    Do(CASE kind \in BufferLike -> Buffer_Rewind(b)
         [] kind = "MBuff" -> MBuff_Rewind(b)
         [] OTHER -> GMBuff_Rewind(b))

Clear ==
    Do(CASE kind \in BufferLike -> Buffer_Clear(b)
         [] kind = "MBuff" -> MBuff_Clear(b)
         [] OTHER -> GMBuff_Clear(b))

SetEndian ==
    \E e \in Orders :
        Do(CASE kind \in BufferLike -> Buffer_SetEndian(b, e)
             [] kind = "MBuff" -> MBuff_SetEndian(b, e)
             [] OTHER -> GMBuff_SetEndian(b, e))

SetHLSwap ==
    \E enable \in BOOLEAN :
        Do(CASE kind \in BufferLike -> Buffer_SetHLSwap(b, enable)
             [] kind = "MBuff" -> MBuff_SetHLSwap(b, enable)
             [] OTHER -> GMBuff_SetHLSwap(b, enable))

Skip ==
    /\ kind \in BufferLike
    /\ \E length \in Offsets : Do(Buffer_Skip(b, length))

Commit ==
    /\ kind \in BufferLike
    /\ \E length \in Offsets :
          /\ GrowOK(length)
          /\ Do(Buffer_Commit(b, length))

Compact ==
    /\ kind \in BufferLike
    /\ Do(Buffer_Compact(b))

\* --------------------------------------------------------- stream adapter

Peek ==
    /\ kind \in BufferLike
    /\ \E k \in 0..MaxArr : Do(Buffer_Peek(b, k))

Read ==
    /\ kind \in BufferLike
    /\ \E k \in 0..MaxArr : Do(Buffer_Read(b, k))

Fill ==
    \E bt \in Bytes8, length \in -1..MaxArr :
        /\ GrowOK(length)
        /\ Do(CASE kind = "Buffer" -> Buffer_Fill(b, bt, length)
                [] kind = "Builder" -> Builder_Fill(b, bt, length)
                [] kind = "MBuff" -> MBuff_Fill(b, bt, length)
                [] OTHER -> GMBuff_Fill(b, bt, length))

Write ==
    \E p \in Arr(Bytes8) :
        /\ GrowOK(Len(p))
        /\ Do(CASE kind = "Buffer" -> Buffer_Write(b, p)
                [] kind = "Builder" -> Builder_Write(b, p)
                [] kind = "MBuff" -> MBuff_Write(b, p)
                [] OTHER -> GMBuff_Write(b, p))

Grow ==
    /\ kind \in Growable
    /\ \E n \in -1..MaxArr :
          /\ b.len + n <= hist.limit
          /\ Do(IF kind = "Builder" THEN Builder_Grow(b, n)
                ELSE GMBuff_Grow(b, n))

Reserve ==
    /\ kind \in Growable
    /\ \E capacity \in {-1, 0, MaxReq, MaxReq + 1} :
          Do(IF kind = "Builder" THEN Builder_Reserve(b, capacity)
             ELSE GMBuff_Reserve(b, capacity))

\* ------------------------------------------------------------------- Take

TakeU8 ==
    /\ kind \in BufferLike
    /\ Do(Buffer_TakeU8(b))

TakeU16 ==
    /\ kind \in BufferLike
    /\ Do(Buffer_TakeU16(b))

TakeU32 ==
    /\ kind \in BufferLike
    /\ Do(Buffer_TakeU32(b))

TakeU64 ==
    /\ kind \in BufferLike
    /\ Do(Buffer_TakeU64(b))

TakeArr8 ==
    /\ kind \in BufferLike
    /\ \E k \in 0..MaxArr : Do(Buffer_TakeArr8(b, k))

TakeArr16 ==
    /\ kind \in BufferLike
    /\ \E k \in 0..MaxArr : Do(Buffer_TakeArr16(b, k))

TakeArr32 ==
    /\ kind \in BufferLike
    /\ \E k \in 0..MaxArr : Do(Buffer_TakeArr32(b, k))

TakeArr64 ==
    /\ kind \in BufferLike
    /\ \E k \in 0..MaxArr : Do(Buffer_TakeArr64(b, k))

\* -------------------------------------------------------------------- Put

\* The encoding the specification gives a value of w bytes: the two bytes of
\* every 16-bit word exchanged when hlswap is set (32 and 64 bits only), then
\* the bytes laid out in the byte order.
SwapPairs(v) == [i \in 1..Len(v) |-> IF i % 2 = 1 THEN v[i + 1] ELSE v[i - 1]]

Encoding(order, hlswap, w, v) ==
    LET s == IF hlswap /\ w >= 4 THEN SwapPairs(v) ELSE v
    IN  IF order = "LE" THEN [i \in 1..w |-> s[w + 1 - i]] ELSE s

\* One Put of the values vs of w bytes each; a tracking scenario remembers
\* the encodings in call order.
DoPut(w, vs, r) ==
    /\ GrowOK(w * Len(vs))
    /\ hist.track => hist.puts < MaxPuts
    /\ b' = r.b
    /\ hist' = IF hist.track
               THEN [hist EXCEPT
                       !.puts = @ + 1,
                       !.expect = @ \o Flatten([i \in 1..Len(vs) |->
                           Encoding(b.order, b.hlswap, w, vs[i])])]
               ELSE hist
    /\ UNCHANGED kind

\* The Put of type k for the values vs of w bytes each: PutUw(vs[1]), or
\* PutArrw(vs) when arr.
PutOf(k, w, arr, buf, vs) ==
    IF k = "Buffer"
    THEN CASE ~arr /\ w = 1 -> Buffer_PutU8(buf, vs[1])
           [] ~arr /\ w = 2 -> Buffer_PutU16(buf, vs[1])
           [] ~arr /\ w = 4 -> Buffer_PutU32(buf, vs[1])
           [] ~arr /\ w = 8 -> Buffer_PutU64(buf, vs[1])
           [] arr /\ w = 1 -> Buffer_PutArr8(buf, Flatten(vs))
           [] arr /\ w = 2 -> Buffer_PutArr16(buf, vs)
           [] arr /\ w = 4 -> Buffer_PutArr32(buf, vs)
           [] OTHER -> Buffer_PutArr64(buf, vs)
    ELSE IF k = "Builder"
    THEN CASE ~arr /\ w = 1 -> Builder_PutU8(buf, vs[1])
           [] ~arr /\ w = 2 -> Builder_PutU16(buf, vs[1])
           [] ~arr /\ w = 4 -> Builder_PutU32(buf, vs[1])
           [] ~arr /\ w = 8 -> Builder_PutU64(buf, vs[1])
           [] arr /\ w = 1 -> Builder_PutArr8(buf, Flatten(vs))
           [] arr /\ w = 2 -> Builder_PutArr16(buf, vs)
           [] arr /\ w = 4 -> Builder_PutArr32(buf, vs)
           [] OTHER -> Builder_PutArr64(buf, vs)
    ELSE IF k = "MBuff"
    THEN CASE ~arr /\ w = 1 -> MBuff_PutU8(buf, vs[1])
           [] ~arr /\ w = 2 -> MBuff_PutU16(buf, vs[1])
           [] ~arr /\ w = 4 -> MBuff_PutU32(buf, vs[1])
           [] ~arr /\ w = 8 -> MBuff_PutU64(buf, vs[1])
           [] arr /\ w = 1 -> MBuff_PutArr8(buf, Flatten(vs))
           [] arr /\ w = 2 -> MBuff_PutArr16(buf, vs)
           [] arr /\ w = 4 -> MBuff_PutArr32(buf, vs)
           [] OTHER -> MBuff_PutArr64(buf, vs)
    ELSE CASE ~arr /\ w = 1 -> GMBuff_PutU8(buf, vs[1])
           [] ~arr /\ w = 2 -> GMBuff_PutU16(buf, vs[1])
           [] ~arr /\ w = 4 -> GMBuff_PutU32(buf, vs[1])
           [] ~arr /\ w = 8 -> GMBuff_PutU64(buf, vs[1])
           [] arr /\ w = 1 -> GMBuff_PutArr8(buf, Flatten(vs))
           [] arr /\ w = 2 -> GMBuff_PutArr16(buf, vs)
           [] arr /\ w = 4 -> GMBuff_PutArr32(buf, vs)
           [] OTHER -> GMBuff_PutArr64(buf, vs)

PutU8 ==
    \E v \in Vals(1) : DoPut(1, <<v>>, PutOf(kind, 1, FALSE, b, <<v>>))

PutU16 ==
    \E v \in Vals(2) : DoPut(2, <<v>>, PutOf(kind, 2, FALSE, b, <<v>>))

PutU32 ==
    \E v \in Vals(4) : DoPut(4, <<v>>, PutOf(kind, 4, FALSE, b, <<v>>))

PutU64 ==
    \E v \in Vals(8) : DoPut(8, <<v>>, PutOf(kind, 8, FALSE, b, <<v>>))

PutArr8 ==
    \E vs \in Arr(Vals(1)) : DoPut(1, vs, PutOf(kind, 1, TRUE, b, vs))

PutArr16 ==
    \E vs \in Arr(Vals(2)) : DoPut(2, vs, PutOf(kind, 2, TRUE, b, vs))

PutArr32 ==
    \E vs \in Arr(Vals(4)) : DoPut(4, vs, PutOf(kind, 4, TRUE, b, vs))

PutArr64 ==
    \E vs \in Arr(Vals(8)) : DoPut(8, vs, PutOf(kind, 8, TRUE, b, vs))

\* ------------------------------------------------------- Peek, Overwrite

PeekU8 ==
    /\ kind \in BufferLike
    /\ \E offset \in RelOffsets : Do(Buffer_PeekU8(b, offset))

PeekU16 ==
    /\ kind \in BufferLike
    /\ \E offset \in RelOffsets : Do(Buffer_PeekU16(b, offset))

PeekU32 ==
    /\ kind \in BufferLike
    /\ \E offset \in RelOffsets : Do(Buffer_PeekU32(b, offset))

PeekU64 ==
    /\ kind \in BufferLike
    /\ \E offset \in RelOffsets : Do(Buffer_PeekU64(b, offset))

PeekArr8 ==
    /\ kind \in BufferLike
    /\ \E offset \in RelOffsets, k \in 0..MaxArr :
          Do(Buffer_PeekArr8(b, offset, k))

PeekArr16 ==
    /\ kind \in BufferLike
    /\ \E offset \in RelOffsets, k \in 0..MaxArr :
          Do(Buffer_PeekArr16(b, offset, k))

PeekArr32 ==
    /\ kind \in BufferLike
    /\ \E offset \in RelOffsets, k \in 0..MaxArr :
          Do(Buffer_PeekArr32(b, offset, k))

PeekArr64 ==
    /\ kind \in BufferLike
    /\ \E offset \in RelOffsets, k \in 0..MaxArr :
          Do(Buffer_PeekArr64(b, offset, k))

\* The Overwrite of type k at the absolute offset for the values vs of w bytes
\* each: OverwriteUw(offset, vs[1]), or OverwriteArrw(offset, vs) when arr.
\* Buffer's (which the Builder embeds) and the growable MBuff's.
OverwriteOf(k, w, arr, buf, offset, vs) ==
    IF k \in BufferLike
    THEN CASE ~arr /\ w = 1 -> Buffer_OverwriteU8(buf, offset, vs[1])
           [] ~arr /\ w = 2 -> Buffer_OverwriteU16(buf, offset, vs[1])
           [] ~arr /\ w = 4 -> Buffer_OverwriteU32(buf, offset, vs[1])
           [] ~arr /\ w = 8 -> Buffer_OverwriteU64(buf, offset, vs[1])
           [] arr /\ w = 1 -> Buffer_OverwriteArr8(buf, offset, Flatten(vs))
           [] arr /\ w = 2 -> Buffer_OverwriteArr16(buf, offset, vs)
           [] arr /\ w = 4 -> Buffer_OverwriteArr32(buf, offset, vs)
           [] OTHER -> Buffer_OverwriteArr64(buf, offset, vs)
    ELSE CASE ~arr /\ w = 1 -> GMBuff_OverwriteU8(buf, offset, vs[1])
           [] ~arr /\ w = 2 -> GMBuff_OverwriteU16(buf, offset, vs[1])
           [] ~arr /\ w = 4 -> GMBuff_OverwriteU32(buf, offset, vs[1])
           [] ~arr /\ w = 8 -> GMBuff_OverwriteU64(buf, offset, vs[1])
           [] arr /\ w = 1 -> GMBuff_OverwriteArr8(buf, offset, Flatten(vs))
           [] arr /\ w = 2 -> GMBuff_OverwriteArr16(buf, offset, vs)
           [] arr /\ w = 4 -> GMBuff_OverwriteArr32(buf, offset, vs)
           [] OTHER -> GMBuff_OverwriteArr64(buf, offset, vs)

\* The types that have Overwrite.
Overwriters == BufferLike \cup {"GMBuff"}

OverwriteU8 ==
    /\ kind \in Overwriters
    /\ \E offset \in RelOffsets, v \in Vals(1) :
          Do(OverwriteOf(kind, 1, FALSE, b, offset, <<v>>))

OverwriteU16 ==
    /\ kind \in Overwriters
    /\ \E offset \in RelOffsets, v \in Vals(2) :
          Do(OverwriteOf(kind, 2, FALSE, b, offset, <<v>>))

OverwriteU32 ==
    /\ kind \in Overwriters
    /\ \E offset \in RelOffsets, v \in Vals(4) :
          Do(OverwriteOf(kind, 4, FALSE, b, offset, <<v>>))

OverwriteU64 ==
    /\ kind \in Overwriters
    /\ \E offset \in RelOffsets, v \in Vals(8) :
          Do(OverwriteOf(kind, 8, FALSE, b, offset, <<v>>))

OverwriteArr8 ==
    /\ kind \in Overwriters
    /\ \E offset \in RelOffsets, vs \in Arr(Vals(1)) :
          Do(OverwriteOf(kind, 1, TRUE, b, offset, vs))

OverwriteArr16 ==
    /\ kind \in Overwriters
    /\ \E offset \in RelOffsets, vs \in Arr(Vals(2)) :
          Do(OverwriteOf(kind, 2, TRUE, b, offset, vs))

OverwriteArr32 ==
    /\ kind \in Overwriters
    /\ \E offset \in RelOffsets, vs \in Arr(Vals(4)) :
          Do(OverwriteOf(kind, 4, TRUE, b, offset, vs))

OverwriteArr64 ==
    /\ kind \in Overwriters
    /\ \E offset \in RelOffsets, vs \in Arr(Vals(8)) :
          Do(OverwriteOf(kind, 8, TRUE, b, offset, vs))

\* ---------------------------------------------------------- specification

Next ==
    \/ Seek
    \/ Reseek
    \/ Rewind
    \/ Clear
    \/ SetEndian
    \/ SetHLSwap
    \/ Skip
    \/ Commit
    \/ Compact
    \/ Peek
    \/ Read
    \/ Fill
    \/ Write
    \/ Grow
    \/ Reserve
    \/ TakeU8
    \/ TakeU16
    \/ TakeU32
    \/ TakeU64
    \/ TakeArr8
    \/ TakeArr16
    \/ TakeArr32
    \/ TakeArr64
    \/ PutU8
    \/ PutU16
    \/ PutU32
    \/ PutU64
    \/ PutArr8
    \/ PutArr16
    \/ PutArr32
    \/ PutArr64
    \/ PeekU8
    \/ PeekU16
    \/ PeekU32
    \/ PeekU64
    \/ PeekArr8
    \/ PeekArr16
    \/ PeekArr32
    \/ PeekArr64
    \/ OverwriteU8
    \/ OverwriteU16
    \/ OverwriteU32
    \/ OverwriteU64
    \/ OverwriteArr8
    \/ OverwriteArr16
    \/ OverwriteArr32
    \/ OverwriteArr64

Spec == Init /\ [][Next]_vars

\* ------------------------------------------------- Put calls on every type

\* Buffers of every type and of capacities up to MaxPutReq under the calls
\* that write (Put, Fill, Write), at every position Seek, Rewind and Clear
\* reach.
InitPut ==
    /\ kind \in Kinds
    /\ \E c \in 0..MaxPutReq :
          b = CASE kind = "Buffer" -> NewBuffer(c)
                [] kind = "Builder" -> NewBuilder(c)
                [] kind = "MBuff" -> NewMBuff(Zeros(c))
                [] OTHER -> New(c)
    /\ hist = [limit |-> MaxPutReq, track |-> FALSE]

NextPut ==
    \/ Seek
    \/ Rewind
    \/ Clear
    \/ Fill
    \/ Write
    \/ PutU8
    \/ PutU16
    \/ PutU32
    \/ PutU64
    \/ PutArr8
    \/ PutArr16
    \/ PutArr32
    \/ PutArr64

SpecPut == InitPut /\ [][NextPut]_vars

\* ------------------------------------------- concatenation on growable types

\* An empty growable buffer; the scenario remembers, in call order, the
\* encoding of every value Put under the settings in force at its Put.
InitConcat ==
    /\ kind \in Growable
    /\ \E c \in 0..MaxCap :
          b = IF kind = "Builder" THEN NewBuilder(c) ELSE New(c)
    /\ hist = [limit |-> 16 * MaxPuts, track |-> TRUE, puts |-> 0,
               expect |-> <<>>]

NextConcat ==
    \/ SetEndian
    \/ SetHLSwap
    \/ PutU8
    \/ PutU16
    \/ PutU32
    \/ PutU64
    \/ PutArr8
    \/ PutArr16
    \/ PutArr32
    \/ PutArr64

SpecConcat == InitConcat /\ [][NextConcat]_vars

\* ---------------------------------------------------------- codec scenario
\* A Buffer or a Builder under each byte order and swap setting, empty or
\* holding a one-byte prefix: one Put (or PutArr) of values of one width, an
\* optional Overwrite of them in place, a Seek back to where they were
\* written, and the matching Take.  The scenario remembers the values in
\* hist.vs and what the Take returned in hist.got.

CodecWidths == {1, 2, 4, 8}

CodecVals(w) ==
    CASE w = 1 -> {<<0>>, <<171>>}
      [] w = 2 -> {<<170, 187>>, <<1, 0>>}
      [] w = 4 -> {<<170, 187, 204, 221>>, <<0, 0, 0, 1>>}
      [] OTHER -> {<<1, 2, 3, 4, 5, 6, 7, 8>>, <<255, 0, 0, 0, 0, 0, 0, 128>>}

\* The argument lists of a scalar call (one value) and of an array call.
CodecArgs(w, arr) ==
    IF arr THEN UNION {[1..k -> CodecVals(w)] : k \in 0..MaxArr}
    ELSE [1..1 -> CodecVals(w)]

\* What the matching Take returns when it returns what was written.
CodecWant(w, arr, vs) ==
    IF ~arr THEN vs[1] ELSE IF w = 1 THEN Flatten(vs) ELSE vs

CodecOverwriteOf(w, arr, offset, vs) ==
    CASE ~arr /\ w = 1 -> Buffer_OverwriteU8(b, offset, vs[1])
      [] ~arr /\ w = 2 -> Buffer_OverwriteU16(b, offset, vs[1])
      [] ~arr /\ w = 4 -> Buffer_OverwriteU32(b, offset, vs[1])
      [] ~arr /\ w = 8 -> Buffer_OverwriteU64(b, offset, vs[1])
      [] arr /\ w = 1 -> Buffer_OverwriteArr8(b, offset, Flatten(vs))
      [] arr /\ w = 2 -> Buffer_OverwriteArr16(b, offset, vs)
      [] arr /\ w = 4 -> Buffer_OverwriteArr32(b, offset, vs)
      [] OTHER -> Buffer_OverwriteArr64(b, offset, vs)

CodecTakeOf(w, arr, k) ==
    CASE ~arr /\ w = 1 -> Buffer_TakeU8(b)
      [] ~arr /\ w = 2 -> Buffer_TakeU16(b)
      [] ~arr /\ w = 4 -> Buffer_TakeU32(b)
      [] ~arr /\ w = 8 -> Buffer_TakeU64(b)
      [] arr /\ w = 1 -> Buffer_TakeArr8(b, k)
      [] arr /\ w = 2 -> Buffer_TakeArr16(b, k)
      [] arr /\ w = 4 -> Buffer_TakeArr32(b, k)
      [] OTHER -> Buffer_TakeArr64(b, k)

InitCodec ==
    /\ kind \in BufferLike
    /\ \E e \in Orders, enable \in BOOLEAN, prefix \in BOOLEAN :
          LET b0 == IF kind = "Buffer" THEN NewBuffer(CodecCap)
                    ELSE NewBuilder(0)
              b1 == Buffer_SetEndian(b0, e).b
              b2 == Buffer_SetHLSwap(b1, enable).b
          IN  b = IF ~prefix THEN b2
                  ELSE IF kind = "Buffer" THEN Buffer_PutU8(b2, <<9>>).b
                  ELSE Builder_PutU8(b2, <<9>>).b
    /\ hist = [limit |-> CodecCap, track |-> FALSE, phase |-> "new",
               w |-> 1, arr |-> FALSE, vs |-> <<>>, at |-> 0,
               over |-> FALSE, got |-> <<>>]

CodecPut ==
    /\ hist.phase = "new"
    /\ \E w \in CodecWidths, arr \in BOOLEAN :
          \E vs \in CodecArgs(w, arr) :
              LET r == PutOf(kind, w, arr, b, vs)
              IN  /\ b' = r.b
                  /\ hist' = [hist EXCEPT
                                !.phase = IF r.panic THEN "panic" ELSE "put",
                                !.w = w, !.arr = arr, !.vs = vs,
                                !.at = b.pos]
    /\ UNCHANGED kind

CodecOverwrite ==
    /\ hist.phase = "put"
    /\ ~hist.over
    /\ \E vs \in CodecArgs(hist.w, hist.arr) :
          /\ Len(vs) = Len(hist.vs)
          /\ LET r == CodecOverwriteOf(hist.w, hist.arr, hist.at, vs)
             IN  /\ b' = r.b
                 /\ hist' = [hist EXCEPT
                               !.phase = IF r.panic THEN "panic" ELSE "put",
                               !.vs = vs, !.over = TRUE]
    /\ UNCHANGED kind

CodecSeek ==
    /\ hist.phase = "put"
    /\ LET r == Buffer_Seek(b, hist.at)
       IN  /\ b' = r.b
           /\ hist' = [hist EXCEPT
                         !.phase = IF r.ret = "nil" THEN "back" ELSE "panic"]
    /\ UNCHANGED kind

CodecTake ==
    /\ hist.phase = "back"
    /\ LET r == CodecTakeOf(hist.w, hist.arr, Len(hist.vs))
       IN  /\ b' = r.b
           /\ hist' = [hist EXCEPT
                         !.phase = IF r.panic THEN "panic" ELSE "took",
                         !.got = r.ret]
    /\ UNCHANGED kind

NextCodec ==
    \/ CodecPut
    \/ CodecOverwrite
    \/ CodecSeek
    \/ CodecTake

SpecCodec == InitCodec /\ [][NextCodec]_vars

\* ------------------------------------------------------ reading scenario
\* The calls that position, fill and read a buffer: everything but Overwrite,
\* Grow and Reserve.

NextRead ==
    \/ Seek
    \/ Reseek
    \/ Rewind
    \/ Clear
    \/ SetEndian
    \/ SetHLSwap
    \/ Skip
    \/ Commit
    \/ Compact
    \/ Peek
    \/ Read
    \/ Fill
    \/ Write
    \/ PutU8
    \/ PutU16
    \/ PutU32
    \/ PutU64
    \/ PutArr8
    \/ PutArr16
    \/ PutArr32
    \/ PutArr64
    \/ TakeU8
    \/ TakeU16
    \/ TakeU32
    \/ TakeU64
    \/ TakeArr8
    \/ TakeArr16
    \/ TakeArr32
    \/ TakeArr64
    \/ PeekU8
    \/ PeekU16
    \/ PeekU32
    \/ PeekU64
    \/ PeekArr8
    \/ PeekArr16
    \/ PeekArr32
    \/ PeekArr64

SpecRead == Init /\ [][NextRead]_vars

\* ---------------------------------------------------- overwrite scenario
\* The calls that position and fill a buffer, and Overwrite.

NextOverwrite ==
    \/ Seek
    \/ Rewind
    \/ Clear
    \/ SetEndian
    \/ SetHLSwap
    \/ Fill
    \/ Write
    \/ PutU8
    \/ PutU16
    \/ PutU32
    \/ PutU64
    \/ PutArr8
    \/ PutArr16
    \/ PutArr32
    \/ PutArr64
    \/ OverwriteU8
    \/ OverwriteU16
    \/ OverwriteU32
    \/ OverwriteU64
    \/ OverwriteArr8
    \/ OverwriteArr16
    \/ OverwriteArr32
    \/ OverwriteArr64

SpecOverwrite == Init /\ [][NextOverwrite]_vars

\* ------------------------------------------------------ settings scenario
\* The setters between the Puts of 16 and of 32 bits, and Rewind to read back.

NextSettings ==
    \/ SetEndian
    \/ SetHLSwap
    \/ Rewind
    \/ PutU16
    \/ PutU32

SpecSettings == Init /\ [][NextSettings]_vars

\* ------------------------------------------------------------------ claims

\* Every Put call the claims range over: width, scalar or array, values.
PutArgs ==
    UNION {{[w |-> w, arr |-> FALSE, vs |-> <<v>>] : v \in Vals(w)}
           \cup {[w |-> w, arr |-> TRUE, vs |-> vs] : vs \in Arr(Vals(w))}
           : w \in {1, 2, 4, 8}}

PutLen(a) == a.w * Len(a.vs)

PutBy(k, buf, a) == PutOf(k, a.w, a.arr, buf, a.vs)

Region(buf) == 0 <= buf.pos /\ buf.pos <= buf.len /\ buf.len <= Cap(buf)

\* C1: on the fixed-capacity Buffer, after any sequence of public operations
\* that returned, 0 <= Pos() <= Count() <= Capacity().
C1_BufferRegion == kind = "Buffer" => Region(b)

\* C2: on the Buffer, Write(p) with non-empty p leaves
\* Count() = max(old Count(), old Pos() + n), n being the count it returned.
C2_WriteExtends ==
    kind = "Buffer" =>
        \A p \in Arr(Bytes8) :
            p # <<>> =>
                LET r == Buffer_Write(b, p)
                IN  r.b.len = Max(b.len, b.pos + r.ret.n)

\* C3: in every reachable state of a Buffer and for every n, Skip(n) returns
\* min(max(n, 0), Readable()), which is not negative, advances Pos() by it,
\* leaves Count() as it was and leaves Pos() <= Count().
C3_SkipClamps ==
    kind = "Buffer" =>
        \A n \in Offsets :
            LET r == Buffer_Skip(b, n)
            IN  /\ r.ret = Min(Max(n, 0), Buffer_Readable(b))
                /\ r.ret >= 0
                /\ r.b.pos = b.pos + r.ret
                /\ r.b.len = b.len
                /\ r.b.pos <= r.b.len

\* C4: on the Builder, after any sequence of its public operations,
\* 0 <= Pos() <= Count() <= Capacity().
C4_BuilderRegion == kind = "Builder" => Region(b)

\* A Builder that has grown from capacity 0 and whose position is inside its
\* valid data.
C4_Witness ==
    /\ kind = "Builder"
    /\ Cap(b) = MinInitialCap
    /\ b.pos = 1
    /\ b.len = 3

\* C5: PutUw(v) (or PutArrw), a Seek back to where it was written and the
\* matching TakeUw (TakeArrw) return exactly what was put, for every width,
\* byte order and swap setting.
C5_RoundTrip ==
    hist.phase = "took" => hist.got = CodecWant(hist.w, hist.arr, hist.vs)

\* A 64-bit value taken back under little-endian order with the swap on.
C5_Witness ==
    /\ hist.phase = "took"
    /\ ~hist.over
    /\ hist.w = 8
    /\ ~hist.arr
    /\ b.order = "LE"
    /\ b.hlswap
    /\ hist.got = <<1, 2, 3, 4, 5, 6, 7, 8>>

\* The bytes the specification says are stored for the 32-bit value
\* [b0, b1, b2, b3] and, likewise, for a 64-bit value.
Stored32(order, hlswap, v) ==
    CASE hlswap /\ order = "BE" -> <<v[2], v[1], v[4], v[3]>>
      [] hlswap /\ order = "LE" -> <<v[3], v[4], v[1], v[2]>>
      [] ~hlswap /\ order = "BE" -> <<v[1], v[2], v[3], v[4]>>
      [] OTHER -> <<v[4], v[3], v[2], v[1]>>

Stored64(order, hlswap, v) ==
    CASE hlswap /\ order = "BE" ->
             <<v[2], v[1], v[4], v[3], v[6], v[5], v[8], v[7]>>
      [] hlswap /\ order = "LE" ->
             <<v[7], v[8], v[5], v[6], v[3], v[4], v[1], v[2]>>
      [] ~hlswap /\ order = "BE" -> v
      [] OTHER -> <<v[8], v[7], v[6], v[5], v[4], v[3], v[2], v[1]>>

\* C6: the bytes a 32-bit or 64-bit Put or Overwrite stores are
\* endianEncode(swap(v)): [b1,b0,b3,b2] with swap and big-endian,
\* [b2,b3,b0,b1] with swap and little-endian, [b0,b1,b2,b3] big-endian and
\* [b3,b2,b1,b0] little-endian without swap.
C6_StoredBytes ==
    (hist.phase \in {"put", "back", "took"} /\ hist.w \in {4, 8}) =>
        \A i \in 1..Len(hist.vs) :
            Slice(b.data, hist.at + hist.w * (i - 1), hist.at + hist.w * i)
                = IF hist.w = 4
                  THEN Stored32(b.order, b.hlswap, hist.vs[i])
                  ELSE Stored64(b.order, b.hlswap, hist.vs[i])

\* 0xAABBCCDD overwritten in place under little-endian order with the swap on.
C6_Witness ==
    /\ hist.phase = "put"
    /\ hist.over
    /\ hist.w = 4
    /\ b.order = "LE"
    /\ b.hlswap
    /\ hist.vs = <<<<170, 187, 204, 221>>>>
    /\ Slice(b.data, hist.at, hist.at + 4) = <<204, 221, 170, 187>>

C8_PutAdvances ==
    \A a \in PutArgs :
        LET r == PutBy(kind, b, a)
        IN  ~r.panic =>
                /\ r.b.pos = b.pos + PutLen(a)
                /\ r.b.len = Max(b.len, b.pos + PutLen(a))

\* A growable MBuff of six valid bytes positioned at 2: PutU16 writes inside
\* the valid data, PutU64 writes past its end.
C8_Witness ==
    /\ kind = "GMBuff"
    /\ b.len = 6
    /\ b.pos = 2
    /\ PutOf(kind, 2, FALSE, b, <<<<0, 1>>>>).b.len = 6
    /\ PutOf(kind, 8, FALSE, b, <<<<0, 0, 0, 0, 0, 0, 0, 1>>>>).b.len = 10

\* C9: on a Builder of any initial capacity no Put, scalar or array, at any
\* position Seek, Rewind and Clear reach, panics.
C9_BuilderPutNeverPanics ==
    kind = "Builder" => \A a \in PutArgs : ~PutBy(kind, b, a).panic

\* A Builder that started with capacity 0, was written up to 8 bytes and was
\* sought back into them.
C9_Witness ==
    /\ kind = "Builder"
    /\ Cap(b) = MinInitialCap
    /\ b.len = 8
    /\ b.pos = 3

\* C10: on a growable buffer that starts empty, after Put calls with
\* SetEndian and SetHLSwap interleaved, Bytes() is the concatenation, in call
\* order, of each value's encoding under the settings in force at its Put.
C10_Concatenation ==
    /\ Buffer_Bytes(b) = hist.expect
    /\ b.pos = Len(hist.expect)

\* A Builder of capacity 1 reallocated twice: PutU8 big-endian, PutU16
\* little-endian, PutU32 little-endian with the swap on.
C10_Witness ==
    /\ kind = "Builder"
    /\ Cap(b) = 7
    /\ hist.puts = 3
    /\ b.order = "LE"
    /\ b.hlswap
    /\ Buffer_Bytes(b) = <<1, 1, 0, 0, 1, 0, 0>>

\* The write of type k that the call c makes on buf: a Put, a Write or a Fill.
\* Every one of them needs pos + WriteLen(c) bytes of capacity.
WriteCalls ==
    {[op |-> "Put", a |-> a] : a \in PutArgs}
    \cup {[op |-> "Write", p |-> p] : p \in Arr(Bytes8)}
    \cup {[op |-> "Fill", length |-> n] : n \in 1..MaxArr}

WriteLen(c) ==
    CASE c.op = "Put" -> PutLen(c.a)
      [] c.op = "Write" -> Len(c.p)
      [] OTHER -> c.length

WriteBy(k, buf, c) ==
    CASE c.op = "Put" -> PutBy(k, buf, c.a)
      [] c.op = "Write" ->
            (IF k = "Builder" THEN Builder_Write(buf, c.p)
             ELSE GMBuff_Write(buf, c.p))
      [] OTHER ->
            (IF k = "Builder" THEN Builder_Fill(buf, 1, c.length)
             ELSE GMBuff_Fill(buf, 1, c.length))

\* C11: on the Builder and on the growable MBuff, a write of at least one
\* byte to a buffer of capacity 0 leaves Capacity() >= 64.
C11_GrowthFloor ==
    (kind \in Growable /\ Cap(b) = 0) =>
        \A c \in WriteCalls :
            WriteLen(c) > 0 => Cap(WriteBy(kind, b, c).b) >= MinInitialCap

\* The capacity the specification gives a growable buffer of capacity c > 0
\* after an operation that requires r bytes.
GrownCap(c, r) == IF r <= c THEN c ELSE Max(2 * c, r)

\* C12: on a growable buffer of capacity c > 0 a write at position p of n
\* bytes (r = p + n), Grow(n) (r = Count() + n) and Reserve(r) leave the
\* capacity c when r <= c and exactly max(2 * c, r) otherwise.
C12_GrowthRule ==
    (kind \in Growable /\ Cap(b) > 0) =>
        /\ \A c \in WriteCalls :
              WriteLen(c) > 0 =>
                  Cap(WriteBy(kind, b, c).b)
                      = GrownCap(Cap(b), b.pos + WriteLen(c))
        /\ \A n \in 0..(MaxPutReq + 1) :
              /\ Cap((IF kind = "Builder" THEN Builder_Grow(b, n)
                      ELSE GMBuff_Grow(b, n)).b)
                     = GrownCap(Cap(b), b.len + n)
              /\ Cap((IF kind = "Builder" THEN Builder_Reserve(b, n)
                      ELSE GMBuff_Reserve(b, n)).b)
                     = GrownCap(Cap(b), n)

\* A growable MBuff that has doubled from capacity 3 to 6: PutU8 at position 4
\* fits, Grow(3) doubles again and a PutArr64 of two values needs more than
\* the double.
C12_Witness ==
    /\ kind = "GMBuff"
    /\ Cap(b) = 6
    /\ b.len = 4
    /\ b.pos = 4
    /\ Cap(PutOf(kind, 1, FALSE, b, <<<<1>>>>).b) = 6
    /\ Cap(GMBuff_Grow(b, 3).b) = 12
    /\ Cap(PutOf(kind, 8, TRUE, b,
                 <<<<0, 0, 0, 0, 0, 0, 0, 1>>,
                   <<0, 0, 0, 0, 0, 0, 0, 1>>>>).b) = 20

TakeCalls ==
    {[w |-> w, arr |-> FALSE, k |-> 1] : w \in {1, 2, 4, 8}}
    \cup {[w |-> w, arr |-> TRUE, k |-> k] : w \in {1, 2, 4, 8}, k \in 0..MaxArr}

TakeLen(c) == c.w * c.k

TakeBy(buf, c) ==
    CASE ~c.arr /\ c.w = 1 -> Buffer_TakeU8(buf)
      [] ~c.arr /\ c.w = 2 -> Buffer_TakeU16(buf)
      [] ~c.arr /\ c.w = 4 -> Buffer_TakeU32(buf)
      [] ~c.arr /\ c.w = 8 -> Buffer_TakeU64(buf)
      [] c.arr /\ c.w = 1 -> Buffer_TakeArr8(buf, c.k)
      [] c.arr /\ c.w = 2 -> Buffer_TakeArr16(buf, c.k)
      [] c.arr /\ c.w = 4 -> Buffer_TakeArr32(buf, c.k)
      [] OTHER -> Buffer_TakeArr64(buf, c.k)

PeekBy(buf, offset, c) ==
    CASE ~c.arr /\ c.w = 1 -> Buffer_PeekU8(buf, offset)
      [] ~c.arr /\ c.w = 2 -> Buffer_PeekU16(buf, offset)
      [] ~c.arr /\ c.w = 4 -> Buffer_PeekU32(buf, offset)
      [] ~c.arr /\ c.w = 8 -> Buffer_PeekU64(buf, offset)
      [] c.arr /\ c.w = 1 -> Buffer_PeekArr8(buf, offset, c.k)
      [] c.arr /\ c.w = 2 -> Buffer_PeekArr16(buf, offset, c.k)
      [] c.arr /\ c.w = 4 -> Buffer_PeekArr32(buf, offset, c.k)
      [] OTHER -> Buffer_PeekArr64(buf, offset, c.k)

\* The offsets Peek is called with, relative to the position.
PeekOffsets == (0 - MaxCap - 1)..(MaxCap + 1)

OverwriteBy(k, buf, offset, a) == OverwriteOf(k, a.w, a.arr, buf, offset, a.vs)

\* C14: a Take of n bytes panics when n > Readable() and then changes
\* nothing; when n <= Readable() it returns, advances the position by n and
\* changes neither the length nor a stored byte.
C14_TakeChecksReadable ==
    kind \in BufferLike =>
        \A c \in TakeCalls :
            LET r == TakeBy(b, c)
                n == TakeLen(c)
            IN  /\ n > Buffer_Readable(b) => (r.panic /\ r.b = b)
                /\ n <= Buffer_Readable(b) =>
                       (~r.panic /\ r.b = [b EXCEPT !.pos = b.pos + n])

\* A Buffer with two readable bytes below its capacity: TakeU16 returns,
\* TakeU32 panics although four bytes of capacity follow the position.
C14_Witness ==
    /\ kind = "Buffer"
    /\ Cap(b) = 4
    /\ b.len = 2
    /\ b.pos = 0
    /\ b.data[2] = 1
    /\ TakeBy(b, [w |-> 2, arr |-> FALSE, k |-> 1]).ret = <<0, 1>>
    /\ TakeBy(b, [w |-> 4, arr |-> FALSE, k |-> 1]).panic

\* C15: every Peek, scalar or array, with a negative offset panics, whatever
\* the position.
C15_NegativePeekPanics ==
    kind \in BufferLike =>
        \A offset \in PeekOffsets, c \in TakeCalls :
            offset < 0 => PeekBy(b, offset, c).panic

\* C16: a Peek changes neither position, length nor content, and the same
\* Peek repeated returns the same value.
C16_PeekIsPure ==
    kind \in BufferLike =>
        \A offset \in PeekOffsets, c \in TakeCalls :
            LET r == PeekBy(b, offset, c)
            IN  /\ r.b = b
                /\ PeekBy(r.b, offset, c).ret = r.ret

\* A Builder positioned after its two bytes: PeekU16(-2) returns them.
C16_Witness ==
    /\ kind = "Builder"
    /\ b.len = 2
    /\ b.pos = 2
    /\ b.order = "LE"
    /\ PeekBy(b, -2, [w |-> 2, arr |-> FALSE, k |-> 1]).ret = <<1, 0>>

\* C17: a Peek of n bytes at offset k panics when Pos() + k + n > Count() or
\* Pos() + k < 0, so a Peek that returns has read inside [0, Count()).
C17_PeekStaysInCount ==
    kind \in BufferLike =>
        \A offset \in PeekOffsets, c \in TakeCalls :
            LET r == PeekBy(b, offset, c)
                at == b.pos + offset
            IN  /\ (at + TakeLen(c) > b.len \/ at < 0) => r.panic
                /\ ~r.panic => (0 <= at /\ at + TakeLen(c) <= b.len)

\* A Buffer of capacity 4 holding 2 bytes, positioned at 1: PeekU8(0) returns
\* and PeekU16(0), which would read one byte past the count, panics.
C17_Witness ==
    /\ kind = "Buffer"
    /\ Cap(b) = 4
    /\ b.len = 2
    /\ b.pos = 1
    /\ ~PeekBy(b, 0, [w |-> 1, arr |-> FALSE, k |-> 1]).panic
    /\ PeekBy(b, 0, [w |-> 2, arr |-> FALSE, k |-> 1]).panic

\* C18: an Overwrite of n bytes at the absolute offset k panics exactly when
\* k < 0 or k + n > Count(), wherever the position is (the condition names
\* no position and holds at every position the calls reach); it leaves the
\* length and every byte of [Count(), Capacity()) as they were.
C18_OverwriteChecksCount ==
    kind \in Overwriters =>
        \A offset \in Offsets, a \in PutArgs :
            LET r == OverwriteBy(kind, b, offset, a)
            IN  /\ r.panic <=> (offset < 0 \/ offset + PutLen(a) > b.len)
                /\ r.b.len = b.len
                /\ \A i \in (b.len + 1)..Cap(b) : r.b.data[i] = b.data[i]

\* A growable MBuff of capacity 4 holding the 2 bytes of a 16-bit value:
\* OverwriteU16(0) returns,
\* OverwriteU16(1) panics although the capacity has room for it.
C18_Witness ==
    /\ kind = "GMBuff"
    /\ Cap(b) = 4
    /\ b.len = 2
    /\ Buffer_Bytes(b) = <<0, 1>>
    /\ ~OverwriteOf(kind, 2, FALSE, b, 0, <<<<0, 1>>>>).panic
    /\ OverwriteOf(kind, 2, FALSE, b, 1, <<<<0, 1>>>>).panic

\* C19: an Overwrite of n bytes at offset k that returns leaves Pos(),
\* Count(), Capacity() and every stored byte outside [k, k + n) as they were.
C19_OverwriteFrame ==
    kind \in Overwriters =>
        \A offset \in Offsets, a \in PutArgs :
            LET r == OverwriteBy(kind, b, offset, a)
            IN  ~r.panic =>
                    /\ r.b.pos = b.pos
                    /\ r.b.len = b.len
                    /\ Cap(r.b) = Cap(b)
                    /\ \A i \in 1..Cap(b) :
                           (i <= offset \/ i > offset + PutLen(a)) =>
                               r.b.data[i] = b.data[i]

\* A Buffer of three bytes positioned at 3 whose middle byte alone was
\* overwritten.
C19_Witness ==
    /\ kind = "Buffer"
    /\ b.len = 3
    /\ b.pos = 3
    /\ Buffer_Bytes(b) = <<0, 1, 0>>
    /\ OverwriteOf(kind, 1, FALSE, b, 1, <<<<1>>>>).b = b

\* The bytes the specification stores for the values vs of w bytes each.
EncodingOf(buf, w, vs) ==
    Flatten([i \in 1..Len(vs) |-> Encoding(buf.order, buf.hlswap, w, vs[i])])

\* The elements an array read has put into the caller's slice.
Elements(w, ret) == IF w = 1 THEN [i \in 1..Len(ret) |-> <<ret[i]>>] ELSE ret

\* C20: an array Put, Overwrite, Take or Peek that panics has changed no
\* stored byte, no element of the caller's slice, neither position nor
\* length; one that returns has transferred all len(v) elements.
C20_ArraysAllOrNothing ==
    /\ \A a \in PutArgs :
           a.arr =>
               LET r == PutBy(kind, b, a)
               IN  /\ r.panic => r.b = b
                   /\ ~r.panic =>
                          Slice(r.b.data, b.pos, b.pos + PutLen(a))
                              = EncodingOf(b, a.w, a.vs)
    /\ kind \in Overwriters =>
           \A offset \in Offsets, a \in PutArgs :
               a.arr =>
                   LET r == OverwriteBy(kind, b, offset, a)
                   IN  /\ r.panic => r.b = b
                       /\ ~r.panic =>
                              Slice(r.b.data, offset, offset + PutLen(a))
                                  = EncodingOf(b, a.w, a.vs)
    /\ kind \in BufferLike =>
           \A c \in TakeCalls :
               c.arr =>
                   LET r == TakeBy(b, c)
                   IN  /\ r.panic => (r.b = b /\ r.ret = "panic")
                       /\ ~r.panic =>
                              /\ Len(r.ret) = c.k
                              /\ EncodingOf(b, c.w, Elements(c.w, r.ret))
                                     = Slice(b.data, b.pos, b.pos + TakeLen(c))
    /\ kind \in BufferLike =>
           \A offset \in PeekOffsets, c \in TakeCalls :
               c.arr =>
                   LET r == PeekBy(b, offset, c)
                   IN  /\ r.panic => (r.b = b /\ r.ret = "panic")
                       /\ ~r.panic =>
                              /\ Len(r.ret) = c.k
                              /\ EncodingOf(b, c.w, Elements(c.w, r.ret))
                                     = Slice(b.data, b.pos + offset,
                                             b.pos + offset + TakeLen(c))

\* A Buffer of capacity 4 holding the two 16-bit values of a PutArr16 and
\* rewound: TakeArr16 of two elements returns both, and OverwriteArr16 of two
\* values at offset 1, whose second value does not fit, panics.
C20_Witness ==
    /\ kind = "Buffer"
    /\ Cap(b) = 4
    /\ b.len = 4
    /\ b.pos = 0
    /\ Buffer_Bytes(b) = <<0, 1, 0, 1>>
    /\ TakeBy(b, [w |-> 2, arr |-> TRUE, k |-> 2]).ret = <<<<0, 1>>, <<0, 1>>>>
    /\ OverwriteOf(kind, 2, TRUE, b, 1, <<<<0, 1>>, <<0, 1>>>>).panic

\* ------------------------------------------------------------------ views
\* A fixed-capacity Buffer and the view last taken of it by Since. Calls are
\* made through the parent and through the view in any order; the view's
\* calls store the byte 2, the parent's the byte 1. start is the resolved
\* lower bound Since was called with.

InitView ==
    /\ kind = "Buffer"
    /\ \E c \in 0..ViewCap, l \in 0..ViewCap :
          /\ l <= c
          /\ b \in {NewBuffer(c), NewBufferFrom(Zeros(c), l)}
    /\ hist = [limit |-> MaxReq, track |-> FALSE, view |-> <<>>, start |-> 0]

\* The parent returns a view: it replaces the one held so far.
TakeView(r, s) ==
    /\ ~r.panic
    /\ hist' = [hist EXCEPT !.view = <<r.ret>>, !.start = s]
    /\ UNCHANGED <<kind, b>>

Since ==
    \E s \in -1..ViewCap, e \in -1..ViewCap :
        TakeView(Buffer_Since(b, s, e), IF s < 0 THEN b.pos ELSE s)

ReadableSince == TakeView(Buffer_ReadableSince(b), b.pos)

WritableSince == TakeView(Buffer_WritableSince(b), b.pos)

\* The view held, as a Buffer.
View == ViewBuffer(b.data, hist.view[1])

\* A call through the view with result r.
ViewDo(r) ==
    /\ b' = [b EXCEPT !.data = ViewStore(b.data, hist.view[1], r.b)]
    /\ hist' = [hist EXCEPT !.view = <<ViewHeader(hist.view[1], r.b)>>]
    /\ UNCHANGED kind

ViewSeek ==
    /\ hist.view # <<>>
    /\ \E offset \in Offsets : ViewDo(Buffer_Seek(View, offset))

ViewCommit ==
    /\ hist.view # <<>>
    /\ \E length \in -1..MaxArr : ViewDo(Buffer_Commit(View, length))

ViewFill ==
    /\ hist.view # <<>>
    /\ \E length \in -1..MaxArr : ViewDo(Buffer_Fill(View, 2, length))

ViewWrite ==
    /\ hist.view # <<>>
    /\ \E p \in {<<>>, <<2>>, <<2, 2>>} : ViewDo(Buffer_Write(View, p))

ViewPutU8 ==
    /\ hist.view # <<>>
    /\ ViewDo(Buffer_PutU8(View, <<2>>))

ViewOverwriteU8 ==
    /\ hist.view # <<>>
    /\ \E offset \in Offsets : ViewDo(Buffer_OverwriteU8(View, offset, <<2>>))

NextView ==
    \/ Seek
    \/ Clear
    \/ Commit
    \/ Compact
    \/ Fill
    \/ Write
    \/ PutU8
    \/ OverwriteU8
    \/ Since
    \/ ReadableSince
    \/ WritableSince
    \/ ViewSeek
    \/ ViewCommit
    \/ ViewFill
    \/ ViewWrite
    \/ ViewPutU8
    \/ ViewOverwriteU8

SpecView == InitView /\ [][NextView]_vars

\* The Seek of each type.
SeekBy(k, buf, offset) ==
    CASE k \in BufferLike -> Buffer_Seek(buf, offset)
      [] k = "MBuff" -> MBuff_Seek(buf, offset)
      [] OTHER -> GMBuff_Seek(buf, offset)

\* ---------------------------------------------------------------- aliases
\* A buffer constructed on a slice of the caller, who keeps the slice: orig
\* is what the caller's array holds and cap0 its capacity. While the buffer's
\* data points into the caller's array (base 0) the two are one array; once
\* ensure has moved the buffer to an array of its own, the caller's array
\* stays as it was at the move (ensure allocates before anything is stored).

\* The constructor of each type that takes the caller's slice: buffer is the
\* slice up to its capacity and length its length.
NewFrom(k, buffer, length) ==
    CASE k = "Buffer" -> NewBufferFrom(buffer, length)
      [] k = "Builder" -> NewBuilderFrom(buffer, length)
      [] k = "MBuff" -> NewMBuff(buffer)
      [] OTHER -> GMBuff_NewMBuff(buffer, length)

InitAlias ==
    /\ kind \in Kinds
    /\ \E c \in 0..MaxCap, l \in 0..MaxCap :
          /\ l <= c
          /\ b = Tracked(NewFrom(kind, Zeros(c), l))
          /\ hist = [limit |-> MaxReq, track |-> FALSE, orig |-> Zeros(c),
                     cap0 |-> c]

\* One call with result r, and what it leaves in the caller's array.
AliasDo(r) ==
    /\ b' = r.b
    /\ hist' = [hist EXCEPT !.orig = IF r.b.base = 0 THEN r.b.data
                                     ELSE IF b.base = 0 THEN b.data
                                     ELSE @]
    /\ UNCHANGED kind

AliasSeek == \E offset \in Offsets : AliasDo(SeekBy(kind, b, offset))

AliasFill ==
    \E length \in -1..MaxArr :
        /\ GrowOK(length)
        /\ AliasDo(CASE kind = "Buffer" -> Buffer_Fill(b, 1, length)
                     [] kind = "Builder" -> Builder_Fill(b, 1, length)
                     [] kind = "MBuff" -> MBuff_Fill(b, 1, length)
                     [] OTHER -> GMBuff_Fill(b, 1, length))

AliasWrite ==
    \E p \in Arr(Bytes8) :
        /\ GrowOK(Len(p))
        /\ AliasDo(CASE kind = "Buffer" -> Buffer_Write(b, p)
                     [] kind = "Builder" -> Builder_Write(b, p)
                     [] kind = "MBuff" -> MBuff_Write(b, p)
                     [] OTHER -> GMBuff_Write(b, p))

AliasPutU8 ==
    /\ GrowOK(1)
    /\ AliasDo(PutOf(kind, 1, FALSE, b, <<(<<1>>)>>))

AliasPutU16 ==
    /\ GrowOK(2)
    /\ AliasDo(PutOf(kind, 2, FALSE, b, <<(<<0, 1>>)>>))

AliasOverwriteU8 ==
    /\ kind \in Overwriters
    /\ \E offset \in Offsets :
          AliasDo(OverwriteOf(kind, 1, FALSE, b, offset, <<(<<1>>)>>))

AliasGrow ==
    /\ kind \in Growable
    /\ \E n \in -1..MaxArr :
          /\ b.len + n <= hist.limit
          /\ AliasDo(IF kind = "Builder" THEN Builder_Grow(b, n)
                     ELSE GMBuff_Grow(b, n))

AliasReserve ==
    /\ kind \in Growable
    /\ \E capacity \in -1..(MaxReq + 1) :
          AliasDo(IF kind = "Builder" THEN Builder_Reserve(b, capacity)
                  ELSE GMBuff_Reserve(b, capacity))

NextAlias ==
    \/ AliasSeek
    \/ AliasFill
    \/ AliasWrite
    \/ AliasPutU8
    \/ AliasPutU16
    \/ AliasOverwriteU8
    \/ AliasGrow
    \/ AliasReserve

SpecAlias == InitAlias /\ [][NextAlias]_vars

\* The payloads Write is called with in the claims: slices of at most MaxArr
\* bytes, no two neighbours forced equal.
Payloads == UNION {[1..k -> {1, 2}] : k \in 0..MaxArr}

\* The counts Fill, Commit, Seek and Reseek are called with in the claims.
Counts == -1..(MaxCap + 2)

\* C21: Read(p) copies n = min(len(p), Readable()) bytes from the position
\* into p and advances the position by n, the length unchanged; it returns
\* io.EOF with n = 0 exactly when Readable() = 0 and len(p) > 0, and (0, nil)
\* with nothing changed when len(p) = 0.
C21_ReadCopies ==
    kind \in BufferLike =>
        \A k \in 0..MaxArr :
            LET r == Buffer_Read(b, k)
                n == Min(k, Buffer_Readable(b))
            IN  /\ ~r.panic
                /\ r.ret.n = n
                /\ r.ret.p = Slice(b.data, b.pos, b.pos + n)
                /\ r.b = [b EXCEPT !.pos = b.pos + n]
                /\ r.ret.err = "EOF" <=> (Buffer_Readable(b) = 0 /\ k > 0)
                /\ r.ret.err \in {"EOF", "nil"}
                /\ k = 0 => (r.b = b /\ r.ret.n = 0 /\ r.ret.err = "nil")

\* The Write of a fixed-capacity type.
FixedWrite(k, buf, p) ==
    IF k = "Buffer" THEN Buffer_Write(buf, p) ELSE MBuff_Write(buf, p)

C23_BufferFillClamps ==
    kind = "Buffer" =>
        \A count \in Counts, bt \in {1, 2} :
            LET r == Buffer_Fill(b, bt, count)
                n == IF count <= 0 THEN 0 ELSE Min(count, Buffer_Writable(b))
            IN  /\ ~r.panic
                /\ r.ret = n
                /\ Cap(r.b) = Cap(b)
                /\ count <= 0 => r.b = b
                /\ Slice(r.b.data, b.pos, b.pos + n) = [i \in 1..n |-> bt]
                /\ r.b.pos = b.pos + n
                /\ count > 0 => r.b.len = Max(b.len, b.pos + n)

\* C24: on the Builder Write(p) returns (len(p), nil) and Fill(bt, count)
\* with count > 0 returns count; the whole payload is stored at
\* [pos, pos + n), the capacity growing as needed, the position is advanced by
\* n and the length raised to the new position when that is larger.
C24_BuilderWritesAll ==
    kind = "Builder" =>
        /\ \A p \in Payloads :
               LET r == Builder_Write(b, p)
                   n == Len(p)
               IN  /\ ~r.panic
                   /\ r.ret = [n |-> n, err |-> "nil"]
                   /\ Slice(r.b.data, b.pos, b.pos + n) = p
                   /\ r.b.pos = b.pos + n
                   /\ r.b.len = Max(b.len, b.pos + n)
                   /\ Cap(r.b) >= b.pos + n
        /\ \A count \in 1..(MaxCap + 2), bt \in {1, 2} :
               LET r == Builder_Fill(b, bt, count)
               IN  /\ ~r.panic
                   /\ r.ret = count
                   /\ Slice(r.b.data, b.pos, b.pos + count)
                          = [i \in 1..count |-> bt]
                   /\ r.b.pos = b.pos + count
                   /\ r.b.len = Max(b.len, b.pos + count)
                   /\ Cap(r.b) >= b.pos + count

\* A full Builder of capacity 2: Write of two bytes at its end returns 2 and
\* doubles the capacity.
C24_Witness ==
    /\ kind = "Builder"
    /\ Cap(b) = 2
    /\ b.len = 2
    /\ b.pos = 2
    /\ Builder_Write(b, <<1, 2>>).ret = [n |-> 2, err |-> "nil"]
    /\ Cap(Builder_Write(b, <<1, 2>>).b) = 4
    /\ Buffer_Bytes(Builder_Write(b, <<1, 2>>).b) = <<b.data[1], b.data[2], 1, 2>>

\* C25: Commit(n) on a Buffer never fails; it returns
\* a = min(max(n, 0), Writable()), advances the position by a, sets Count() to
\* max(old Count(), new Pos()) and changes no stored byte.
C25_CommitExtends ==
    kind = "Buffer" =>
        \A n \in Counts :
            LET r == Buffer_Commit(b, n)
                a == Min(Max(n, 0), Buffer_Writable(b))
            IN  /\ ~r.panic
                /\ r.ret = a
                /\ r.b.pos = b.pos + a
                /\ r.b.len = Max(b.len, b.pos + a)
                /\ r.b.data = b.data

\* C26: with R the bytes of the readable region [pos, length), after
\* Compact() Bytes() = R, Pos() = 0, Count() = len(R) and Capacity() is what
\* it was; Compact changes nothing when pos = 0 and does what Clear does when
\* pos = length.
C26_CompactKeepsReadable ==
    kind \in BufferLike =>
        LET r == Buffer_Compact(b)
            R == Slice(b.data, b.pos, b.len)
        IN  /\ ~r.panic
            /\ Buffer_Bytes(r.b) = R
            /\ r.b.pos = 0
            /\ r.b.len = Len(R)
            /\ Cap(r.b) = Cap(b)
            /\ b.pos = 0 => r.b = b
            /\ b.pos = b.len => r.b = Buffer_Clear(b).b

\* C30: Seek(k) sets the position to k when 0 <= k <= Count(), and Reseek(k)
\* sets it to Count() - k under the same bound; with k outside [0, Count()]
\* either returns a non-nil error without panicking and leaves position,
\* length and content as they were.
C30_SeekBounds ==
    \A k \in Counts :
        /\ LET r == SeekBy(kind, b, k)
           IN  /\ ~r.panic
               /\ (0 <= k /\ k <= b.len) =>
                      (r.ret = "nil" /\ r.b = [b EXCEPT !.pos = k])
               /\ (k < 0 \/ k > b.len) => (r.ret = "error" /\ r.b = b)
        /\ kind \in BufferLike =>
               LET r == Buffer_Reseek(b, k)
               IN  /\ ~r.panic
                   /\ (0 <= k /\ k <= b.len) =>
                          (r.ret = "nil" /\ r.b = [b EXCEPT !.pos = b.len - k])
                   /\ (k < 0 \/ k > b.len) => (r.ret = "error" /\ r.b = b)

\* A Buffer holding three bytes, positioned at 2: Reseek(3) moves to 0,
\* Seek(3) to the end, and Seek(4) and Reseek(-1) are refused.
C30_Witness ==
    /\ kind = "Buffer"
    /\ b.len = 3
    /\ b.pos = 2
    /\ Buffer_Reseek(b, 3).b.pos = 0
    /\ Buffer_Seek(b, 3).b.pos = 3
    /\ Buffer_Seek(b, 4) = Ok(b, "error")
    /\ Buffer_Reseek(b, -1) = Ok(b, "error")

\* The bounds Since is called with in the claims, and what a negative bound
\* stands for.
SinceArgs == -1..(ViewCap + 1)

Start(buf, s) == IF s < 0 THEN buf.pos ELSE s

End(buf, e) == IF e < 0 THEN buf.len ELSE e

\* C27: Since(start, end), a negative start standing for the position and a
\* negative end for the length, returns a view with Pos() = 0,
\* Count() = end - start and Bytes() equal to the parent's bytes
\* [start, end); it panics when the resolved start is above the resolved end;
\* the parent's position and length are not changed.
C27_SinceView ==
    \A s \in SinceArgs, e \in SinceArgs :
        LET r == Buffer_Since(b, s, e)
            s1 == Start(b, s)
            e1 == End(b, e)
        IN  /\ s1 > e1 => r.panic
            /\ (s1 <= e1 /\ e1 <= Cap(b)) => ~r.panic
            /\ r.b = b
            /\ ~r.panic =>
                   LET vb == ViewBuffer(b.data, r.ret)
                   IN  /\ vb.pos = 0
                       /\ vb.len = e1 - s1
                       /\ Buffer_Bytes(vb) = Slice(b.data, s1, e1)
                       /\ vb.order = b.order
                       /\ vb.hlswap = b.hlswap

\* The parent holds <<0, 1, 0>> and the view held is the one that Since(1, 3)
\* and, at position 1, Since(-1, -1) return: its bytes are <<1, 0>>;
\* Since(2, 1) panics.
C27_Witness ==
    /\ b.data = <<0, 1, 0>>
    /\ b.len = 3
    /\ b.pos = 1
    /\ hist.view = <<Buffer_Since(b, 1, 3).ret>>
    /\ Buffer_Since(b, -1, -1).ret = hist.view[1]
    /\ Buffer_Bytes(ViewBuffer(b.data, hist.view[1])) = <<1, 0>>
    /\ Buffer_Since(b, 2, 1).panic

\* The calls that store or commit through a view in C28.
ViewCalls == {"PutU8", "Write", "Fill", "Commit"}

ViewCall(vb, c) ==
    CASE c = "PutU8" -> Buffer_PutU8(vb, <<2>>)
      [] c = "Write" -> Buffer_Write(vb, <<2, 2>>)
      [] c = "Fill" -> Buffer_Fill(vb, 2, MaxArr)
      [] OTHER -> Buffer_Commit(vb, MaxArr)

\* C28: the view Since(start, end) returns has Capacity() = end - start, so
\* no Put, Write, Fill or Commit through the view changes a byte of the parent
\* at an index of end or above.
C28_ViewCapacity ==
    \A s \in SinceArgs, e \in SinceArgs :
        LET r == Buffer_Since(b, s, e)
            s1 == Start(b, s)
            e1 == End(b, e)
        IN  ~r.panic =>
                LET vb == ViewBuffer(b.data, r.ret)
                IN  /\ Cap(vb) = e1 - s1
                    /\ \A c \in ViewCalls :
                           LET after == ViewStore(b.data, r.ret,
                                                  ViewCall(vb, c).b)
                           IN  \A j \in (e1 + 1)..Cap(b) : after[j] = b.data[j]

\* C29: a view of a fixed-capacity Buffer shares its storage with the parent
\* in both directions: a byte x written through the view at offset i of the
\* view is the parent's byte at start + i, and a byte x written through the
\* parent at index start + i is the view's byte at offset i.
C29_SharedStorage ==
    hist.view # <<>> =>
        LET v == hist.view[1]
            vb == ViewBuffer(b.data, v)
            start == hist.start
        IN  \A i \in 0..(ViewCap - 1), x \in {1, 2} :
                i < v.len =>
                    /\ LET r == Buffer_OverwriteU8(vb, i, <<x>>)
                       IN  /\ ~r.panic
                           /\ ViewStore(b.data, v, r.b)[start + i + 1] = x
                    /\ i = v.pos =>
                           LET r == Buffer_PutU8(vb, <<x>>)
                           IN  /\ ~r.panic
                               /\ ViewStore(b.data, v, r.b)[start + i + 1] = x
                    /\ start + i < b.len =>
                           LET r == Buffer_OverwriteU8(b, start + i, <<x>>)
                           IN  /\ ~r.panic
                               /\ ViewBuffer(r.b.data, v).data[i + 1] = x
                    /\ start + i = b.pos =>
                           LET r == Buffer_PutU8(b, <<x>>)
                           IN  /\ ~r.panic
                               /\ ViewBuffer(r.b.data, v).data[i + 1] = x

\* A view taken from index 1 of a parent of three bytes, after a 2 was stored
\* through the view at its offset 0 and a 1 through the parent at index 2:
\* the parent holds <<0, 2, 1>> and the view <<2, 1>>.
C29_Witness ==
    /\ hist.view # <<>>
    /\ hist.start = 1
    /\ b.len = 3
    /\ b.data = <<0, 2, 1>>
    /\ Buffer_Bytes(ViewBuffer(b.data, hist.view[1])) = <<2, 1>>

\* Grow and Reserve of the growable types.
GrowBy(k, buf, n) ==
    IF k = "Builder" THEN Builder_Grow(buf, n) ELSE GMBuff_Grow(buf, n)

ReserveBy(k, buf, capacity) ==
    IF k = "Builder" THEN Builder_Reserve(buf, capacity)
    ELSE GMBuff_Reserve(buf, capacity)

\* The writes of single bytes: Write and Fill.
ByteCalls ==
    {[op |-> "Write", p |-> p] : p \in Arr(Bytes8)}
    \cup {[op |-> "Fill", length |-> n] : n \in 1..MaxArr}

\* C31: after Grow(n) with n >= 0 on a growable buffer Capacity() >=
\* Count() + n, position, length and content are unchanged, and following
\* writes of at most n bytes in total leave the capacity as it is; Grow(n)
\* with n < 0 panics and changes nothing.
C31_GrowReserves ==
    kind \in Growable =>
        \A n \in -1..MaxReq :
            LET r == GrowBy(kind, b, n)
            IN  IF n < 0 THEN r.panic /\ r.b = b
                ELSE /\ ~r.panic
                     /\ Cap(r.b) >= b.len + n
                     /\ r.b.pos = b.pos
                     /\ r.b.len = b.len
                     /\ Buffer_Bytes(r.b) = Buffer_Bytes(b)
                     /\ \A c1 \in WriteCalls :
                            WriteLen(c1) <= n =>
                                LET w1 == WriteBy(kind, r.b, c1)
                                IN  /\ ~w1.panic
                                    /\ Cap(w1.b) = Cap(r.b)
                                    /\ w1.b.base = r.b.base
                     /\ \A c1 \in ByteCalls :
                            (0 < WriteLen(c1) /\ WriteLen(c1) < n) =>
                                LET w1 == WriteBy(kind, r.b, c1)
                                IN  \A c2 \in ByteCalls :
                                        WriteLen(c1) + WriteLen(c2) <= n =>
                                            LET w2 == WriteBy(kind, w1.b, c2)
                                            IN  /\ ~w2.panic
                                                /\ Cap(w2.b) = Cap(r.b)
                                                /\ w2.b.base = r.b.base

\* A full Builder of capacity 2 at its end: Grow(2) moves it to an array of
\* capacity 4, and PutU16 after it stays in that array.
C31_Witness ==
    /\ kind = "Builder"
    /\ Cap(b) = 2
    /\ b.len = 2
    /\ b.pos = 2
    /\ Cap(Builder_Grow(b, 2).b) = 4
    /\ Builder_Grow(b, 2).b.base = b.base + 1
    /\ Builder_PutU16(Builder_Grow(b, 2).b, <<0, 1>>).b.base = b.base + 1
    /\ Cap(Builder_PutU16(Builder_Grow(b, 2).b, <<0, 1>>).b) = 4

\* C32: after Reserve(t) with t >= 0 Capacity() >= t, and when t is at most
\* the current capacity the call changes nothing: capacity, position, length,
\* content and the array that holds them; Reserve(t) with t < 0 panics.
C32_ReserveTotal ==
    kind \in Growable =>
        \A t \in -1..(MaxReq + 1) :
            LET r == ReserveBy(kind, b, t)
            IN  IF t < 0 THEN r.panic
                ELSE /\ ~r.panic
                     /\ Cap(r.b) >= t
                     /\ t <= Cap(b) => r.b = b

\* A Builder of capacity 2 holding one byte: Reserve(1) leaves it in its
\* array, Reserve(3) moves it to one of capacity 4.
C32_Witness ==
    /\ kind = "Builder"
    /\ Cap(b) = 2
    /\ b.len = 1
    /\ Builder_Reserve(b, 1).b = b
    /\ Cap(Builder_Reserve(b, 3).b) = 4
    /\ Builder_Reserve(b, 3).b.base = b.base + 1

\* C33: every constructor that takes the caller's slice, of length L and
\* capacity C, gives a buffer with Count() = L, Capacity() = C, Pos() = 0 and
\* Readable() = L.
C33_ConstructFrom ==
    \A c \in 0..MaxCap, l \in 0..MaxCap :
        l <= c =>
            LET nb == NewFrom(kind, Zeros(c), l)
            IN  /\ nb.len = l
                /\ Cap(nb) = c
                /\ nb.pos = 0
                /\ Buffer_Readable(nb) = l

\* SetEndian and SetHLSwap of each type.
SetEndianBy(k, buf, e) ==
    CASE k \in BufferLike -> Buffer_SetEndian(buf, e)
      [] k = "MBuff" -> MBuff_SetEndian(buf, e)
      [] OTHER -> GMBuff_SetEndian(buf, e)

SetHLSwapBy(k, buf, enable) ==
    CASE k \in BufferLike -> Buffer_SetHLSwap(buf, enable)
      [] k = "MBuff" -> MBuff_SetHLSwap(buf, enable)
      [] OTHER -> GMBuff_SetHLSwap(buf, enable)

\* The buffer c after a setter differs from the buffer a before it in no
\* stored byte, nor in position or length.
SameStored(a, c) == c.data = a.data /\ c.pos = a.pos /\ c.len = a.len

\* A Put into buffer a under the settings order and hlswap: what it stores at
\* the position, and what it leaves below the position.
PutsUnder(a, c, order, hlswap) ==
    \A x \in PutArgs :
        LET r == PutBy(kind, c, x)
        IN  ~r.panic =>
                /\ Slice(r.b.data, a.pos, a.pos + PutLen(x))
                       = Flatten([i \in 1..Len(x.vs) |->
                                     Encoding(order, hlswap, x.w, x.vs[i])])
                /\ Slice(r.b.data, 0, a.pos) = Slice(a.data, 0, a.pos)

\* C34: SetEndian and SetHLSwap change the setting alone, leaving the stored
\* bytes, the position and the length as they are; the encodings that follow
\* use the new setting.
C34_SettersNotRetroactive ==
    /\ \A e \in Orders :
           LET r == SetEndianBy(kind, b, e)
           IN  /\ ~r.panic
               /\ SameStored(b, r.b)
               /\ r.b.order = e
               /\ r.b.hlswap = b.hlswap
               /\ PutsUnder(b, r.b, e, b.hlswap)
    /\ \A enable \in BOOLEAN :
           LET r == SetHLSwapBy(kind, b, enable)
           IN  /\ ~r.panic
               /\ SameStored(b, r.b)
               /\ r.b.hlswap = enable
               /\ r.b.order = b.order
               /\ PutsUnder(b, r.b, b.order, enable)

\* A Buffer that holds a 16-bit value stored big-endian and has since been
\* set to little-endian: the bytes stay, the next PutU16 stores the other way.
C34_Witness ==
    /\ kind = "Buffer"
    /\ b.order = "LE"
    /\ b.pos = 2
    /\ b.len = 2
    /\ Cap(b) = 4
    /\ Slice(b.data, 0, 2) = <<0, 1>>
    /\ Slice(Buffer_PutU16(b, <<0, 1>>).b.data, 0, 4) = <<0, 1, 1, 0>>

\* The buffer with the swap set to enable and nothing else changed.
WithSwap(buf, enable) == [buf EXCEPT !.hlswap = enable]

\* Two results agree in everything but the swap setting of the buffer.
SameButSwap(r1, r2) ==
    /\ r1.panic = r2.panic
    /\ r1.ret = r2.ret
    /\ WithSwap(r1.b, FALSE) = WithSwap(r2.b, FALSE)

\* C35: the 8-bit and 16-bit operations ignore the swap: what Put and
\* Overwrite store and what Take and Peek return is the same with the swap
\* enabled and disabled.
C35_NarrowIgnoreSwap ==
    LET on == WithSwap(b, TRUE)
        off == WithSwap(b, FALSE)
    IN  /\ \A a \in PutArgs :
               a.w \in {1, 2} =>
                   /\ SameButSwap(PutBy(kind, on, a), PutBy(kind, off, a))
                   /\ kind \in Overwriters =>
                          \A offset \in Offsets :
                              SameButSwap(OverwriteBy(kind, on, offset, a),
                                          OverwriteBy(kind, off, offset, a))
        /\ kind \in BufferLike =>
               \A c \in TakeCalls :
                   c.w \in {1, 2} =>
                       /\ SameButSwap(TakeBy(on, c), TakeBy(off, c))
                       /\ \A offset \in PeekOffsets :
                              SameButSwap(PeekBy(on, offset, c),
                                          PeekBy(off, offset, c))

\* A Buffer with the swap enabled, rewound over a stored 16-bit value:
\* TakeU16 returns the value and PutU16 stores the same two bytes.
C35_Witness ==
    /\ kind = "Buffer"
    /\ b.hlswap
    /\ b.order = "BE"
    /\ b.pos = 0
    /\ b.len = 2
    /\ Slice(b.data, 0, 2) = <<0, 1>>
    /\ Buffer_TakeU16(b).ret = <<0, 1>>
    /\ Slice(Buffer_PutU16(b, <<0, 1>>).b.data, 0, 2) = <<0, 1>>

\* C36: on the Buffer, in every reachable state, the slice WritableBytes()
\* returns has the length Writable(), which is Capacity() - Pos().
C36_WritableBytesLength ==
    kind = "Buffer" =>
        LET r == Buffer_WritableBytes(b)
        IN  /\ ~r.panic
            /\ Len(r.ret) = Buffer_Writable(b)
            /\ Buffer_Writable(b) = Cap(b) - b.pos

\* The caller's slice shows the buffer's bytes at its first n indices.
Visible(n) == \A i \in 1..n : hist.orig[i] = b.data[i]

\* C37 as stated: of a buffer constructed on the caller's slice, after any
\* sequence of operations, those that grow the buffer included, every byte
\* stored through the buffer is seen through the caller's slice.
C37_AliasAlways == Visible(hist.cap0)

\* C37: of a buffer constructed on the caller's slice, as long as no
\* operation has grown it, which is as long as Capacity() is the capacity of
\* the caller's slice and is always so on the fixed-capacity types, every
\* byte stored through the buffer is seen through the caller's slice.
C37_AliasUntilGrowth ==
    /\ kind \in Fixed => Cap(b) = hist.cap0
    /\ Cap(b) = hist.cap0 => b.base = 0 /\ Visible(hist.cap0)

\* A Builder still in the caller's array after a byte 1 was stored through
\* it, and the caller's slice showing the byte.
C37_Witness ==
    /\ kind = "Builder"
    /\ hist.cap0 = 2
    /\ Cap(b) = 2
    /\ b.base = 0
    /\ b.data[1] = 1
    /\ hist.orig[1] = 1

\* ------------------------------------------------- views of a Builder
\* A Builder and the view last taken of it (Builder embeds Buffer, so Since is
\* Buffer's). The view is a slice of the array the Builder was on when the
\* view was taken: vbase names that array and vcap is its capacity. When
\* ensure moves the Builder to a new array the view stays on the old one,
\* which arr then holds as it was at the move.

\* The Builder starts with a capacity of 1 to ShareCap and is written up to
\* ShareCap + 1 bytes, which takes it through one or two moves.
ShareCap == MaxCap - 2

InitShare ==
    /\ kind = "Builder"
    /\ \E c \in 1..ShareCap, l \in 0..ShareCap :
          /\ l <= c
          /\ b \in {Tracked(NewBuilder(c)), Tracked(NewBuilderFrom(Zeros(c), l))}
    /\ hist = [limit |-> ShareCap + 1, track |-> FALSE, view |-> <<>>, start |-> 0,
               vbase |-> 0, vcap |-> 0, arr |-> <<>>]

\* The view is on the array the Builder is on.
Attached == b.base = hist.vbase

\* The array the view is on.
ShareArray == IF Attached THEN b.data ELSE hist.arr

ShareView == ViewBuffer(ShareArray, hist.view[1])

ShareSince ==
    \E s \in -1..(ShareCap + 1), e \in -1..(ShareCap + 1) :
        LET r == Buffer_Since(b, s, e)
        IN  /\ ~r.panic
            /\ hist' = [hist EXCEPT !.view = <<r.ret>>,
                                    !.start = IF s < 0 THEN b.pos ELSE s,
                                    !.vbase = b.base,
                                    !.vcap = Cap(b),
                                    !.arr = <<>>]
            /\ UNCHANGED <<kind, b>>

\* A call on the Builder with result r: the view is left behind when the
\* call has moved the Builder.
ShareDo(r) ==
    /\ b' = r.b
    /\ hist' = IF hist.view # <<>> /\ Attached /\ r.b.base # b.base
               THEN [hist EXCEPT !.arr = b.data]
               ELSE hist
    /\ UNCHANGED kind

ShareSeek ==
    \E offset \in -1..(ShareCap + 1) : ShareDo(Buffer_Seek(b, offset))

SharePutU8 ==
    /\ GrowOK(1)
    /\ ShareDo(Builder_PutU8(b, <<1>>))

ShareOverwriteU8 ==
    \E offset \in -1..(ShareCap + 1) : ShareDo(Buffer_OverwriteU8(b, offset, <<1>>))

ShareGrow ==
    \E n \in -1..MaxArr :
        /\ b.len + n <= hist.limit
        /\ ShareDo(Builder_Grow(b, n))

ShareReserve ==
    \E capacity \in -1..(ShareCap + 1) : ShareDo(Builder_Reserve(b, capacity))

\* A call through the view with result r stores into the array the view is
\* on.
ShareViewDo(r) ==
    /\ b' = IF Attached
            THEN [b EXCEPT !.data = ViewStore(b.data, hist.view[1], r.b)]
            ELSE b
    /\ hist' = [hist EXCEPT
                  !.view = <<ViewHeader(hist.view[1], r.b)>>,
                  !.arr = IF Attached THEN @
                          ELSE ViewStore(@, hist.view[1], r.b)]
    /\ UNCHANGED kind

ShareViewPutU8 ==
    /\ hist.view # <<>>
    /\ ShareViewDo(Buffer_PutU8(ShareView, <<2>>))

ShareViewOverwriteU8 ==
    /\ hist.view # <<>>
    /\ \E offset \in -1..(ShareCap + 1) :
          ShareViewDo(Buffer_OverwriteU8(ShareView, offset, <<2>>))

NextShare ==
    \/ ShareSince
    \/ ShareSeek
    \/ SharePutU8
    \/ ShareOverwriteU8
    \/ ShareGrow
    \/ ShareReserve
    \/ ShareViewPutU8
    \/ ShareViewOverwriteU8

SpecShare == InitShare /\ [][NextShare]_vars

\* A byte x stored through the view at each of its offsets i is the Builder's
\* byte at start + i, and a byte x stored through the Builder at start + i is
\* the view's byte at i: in every state when always, and else in the states
\* where the Builder has the capacity it had when the view was taken.
Shares(always) ==
    LET v == hist.view[1]
        vb == ShareView
        start == hist.start
        live == always \/ Cap(b) = hist.vcap
    IN  \A i \in 0..MaxCap, x \in {3, 4} :
            i < v.len =>
                /\ live =>
                       LET r == Buffer_OverwriteU8(vb, i, <<x>>)
                           after == IF Attached THEN ViewStore(b.data, v, r.b)
                                    ELSE b.data
                       IN  ~r.panic /\ after[start + i + 1] = x
                /\ live /\ i = v.pos =>
                       LET r == Buffer_PutU8(vb, <<x>>)
                           after == IF Attached THEN ViewStore(b.data, v, r.b)
                                    ELSE b.data
                       IN  ~r.panic /\ after[start + i + 1] = x
                /\ live /\ start + i < b.len =>
                       LET r == Buffer_OverwriteU8(b, start + i, <<x>>)
                           after == IF Attached THEN r.b.data ELSE hist.arr
                       IN  ~r.panic /\ ViewBuffer(after, v).data[i + 1] = x
                /\ start + i = b.pos =>
                       LET r == Builder_PutU8(b, <<x>>)
                           after == IF ~Attached THEN hist.arr
                                    ELSE IF r.b.base = b.base THEN r.b.data
                                    ELSE b.data
                       IN  always \/ Cap(r.b) = hist.vcap =>
                               ~r.panic /\ ViewBuffer(after, v).data[i + 1] = x

\* C38 as stated: a view taken of a Builder shares the Builder's storage for
\* the rest of the Builder's life, also after the Builder has grown.
C38_SharesForLife == hist.view # <<>> => Shares(TRUE)

\* C38: a view taken of a Builder shares the Builder's storage, in both
\* directions, until the Builder next grows: for as long as the Builder's
\* Capacity() is what it was when the view was taken.
C38_SharesUntilGrowth ==
    hist.view # <<>> =>
        /\ Cap(b) = hist.vcap => Attached
        /\ Shares(FALSE)

\* A Builder that has moved once, then gave a view from its index 1, on the
\* array it is still on: a 2 stored through the view at its offset 0 is the
\* Builder's byte at index 1.
C38_Witness ==
    /\ hist.view # <<>>
    /\ b.base = 1
    /\ hist.vbase = 1
    /\ Cap(b) = hist.vcap
    /\ hist.start = 1
    /\ b.data[2] = 2
    /\ ShareView.data[1] = 2

C40_ReadPeekTotal ==
    kind = "Buffer" =>
        \A k \in 0..MaxArr :
            /\ LET r == Buffer_Read(b, k)
               IN  ~r.panic /\ 0 <= r.ret.n /\ r.ret.n <= k
            /\ LET r == Buffer_Peek(b, k)
               IN  ~r.panic /\ 0 <= r.ret.n /\ r.ret.n <= k

====
